---- MODULE Spec2Model ----
(***************************************************************************)
(* A model of the UI layout engine of scripts/ui_layout_debug.js: the      *)
(* style cascade, the tree driver UILayout.processInstance, the flow       *)
(* layouters, the out-of-flow positioners and the step-by-step debug       *)
(* driver UILayoutDebug built on the generator processInstanceStepByStep.  *)
(*                                                                         *)
(* Numbers are integers.  A JavaScript division a / b is modelled by       *)
(* Div(a, b), the quotient rounded towards minus infinity; the style       *)
(* libraries below use lengths that are multiples of 12 and percentages    *)
(* 50 and 100 so that the quotients that decide the properties are exact.  *)
(* On integers the loop thresholds "> 0.1" and "< 0.01" of the flex-grow   *)
(* loop read "> 0" and "<= 0".                                             *)
(*                                                                         *)
(* A style value is a record [t, v]: t = "num" is a number v, t = "pct"    *)
(* the string "v%", t = "numstr" the string of the digits of v (what the   *)
(* flex shorthand stores as a basis), any other t is the identifier t.     *)
(* A parsed style is what parseStyle returns: [computedStyle,              *)
(* importantProperties]; the host keeps the parse of each inline style.   *)
(***************************************************************************)
EXTENDS Integers, Sequences, FiniteSets, TLC

VARIABLES
  attrs,              \* host node attributes: isVisible, doLayout, classes, style
  inst,               \* per node: x, y, width, height, cs (_computedStyles, <<>> if unset)
  debugMode,          \* UILayoutDebug.debugMode
  pendingGenerators,  \* UILayoutDebug.pendingGenerators (a stack of generator ids)
  gen,                \* the state of the generator debugGenerator: frames, done
  debugInfo,          \* UILayoutDebug.debugInfo (<<>> is null)
  lastDebugInfo,      \* UILayoutDebug.lastDebugInfo
  highlight,          \* geometry of the host's Highlight instance (<<>> if none yet)
  ret,                \* what the last call returned: "null", "step" or "undefined"
  lastOp,             \* the last call made, with its argument
  log,                \* the phases of the last layout pass, in order
  armedFrom,          \* the tree as it was when enableDebugMode was last called
  passes,             \* number of layout passes started so far
  fin,                \* input of the function under test (function specifications)
  fout                \* its output

vars == <<attrs, inst, debugMode, pendingGenerators, gen, debugInfo, lastDebugInfo,
          highlight, ret, lastOp, log, armedFrom, passes, fin, fout>>

\* ------------------------------------------------------------------ values

Num(n) == [t |-> "num", v |-> n]
Pct(n) == [t |-> "pct", v |-> n]
NumStr(n) == [t |-> "numstr", v |-> n]
Kw(s) == [t |-> s, v |-> 0]
Undef == [t |-> "undef", v |-> 0]

Max(a, b) == IF a >= b THEN a ELSE b
Min(a, b) == IF a <= b THEN a ELSE b
Abs(a) == IF a < 0 THEN 0 - a ELSE a
Div(a, b) == a \div b

\* F(v) with v evaluated first: the sequencing of statements
Then(v, F(_)) == CHOOSE r \in {F(x) : x \in {v}} : TRUE

\* styles.p, undefined when the property is absent
Get(s, p) == IF p \in DOMAIN s THEN s[p] ELSE Undef
IsNum(val) == val.t = "num"
IsString(val) == val.t \notin {"num", "undef"}
\* JavaScript truthiness of a style value
Truthy(val) == val.t # "undef" /\ ~(val.t = "num" /\ val.v = 0)
\* typeof v === "string" && v.endsWith("%")
IsPercentString(val) == val.t = "pct"
\* styles.a ?? styles.b ?? styles.c ?? 0, for numeric properties
Nullish3(s, a, b, c) ==
  IF a \in DOMAIN s THEN s[a].v
  ELSE IF b \in DOMAIN s THEN s[b].v
  ELSE IF c \in DOMAIN s THEN s[c].v ELSE 0
\* styles.p || 0, for numeric properties
NumOr0(s, p) == IF Truthy(Get(s, p)) THEN s[p].v ELSE 0
\* styles.p || d, for identifier properties
KwOr(s, p, d) == IF Truthy(Get(s, p)) THEN s[p].t ELSE d

\* ------------------------------------------------------------------ the tree

\* The host's tree: node 1 is the root; 2, 3 and 4 are its children in list
\* order; 5 is the child of 2.
Nodes == 1 .. 5
Root == 1
children(n) == IF n = 1 THEN <<2, 3, 4>> ELSE IF n = 2 THEN <<5>> ELSE <<>>
NoParent == 0
getParent(n) == IF n \in {2, 3, 4} THEN 1 ELSE IF n = 5 THEN 2 ELSE NoParent
\* Each node carries one tag of its own.
Tag(n) == CASE n = 1 -> "root" [] n = 2 -> "panelA" [] n = 3 -> "panelB"
            [] n = 4 -> "panelC" [] OTHER -> "leaf"
hasTags(n, tag) == Tag(n) = tag

\* ------------------------------------------------------------------ the cascade

ParsedStyle(cs, imp) == [computedStyle |-> cs, importantProperties |-> imp]
EmptyStyle == << >>

\* The text of a style block is a sequence of lines "property: value"; a value
\* is the sequence of its whitespace-separated words.  A word is the text of an
\* integer, "n%", "0" followed by a unit, an identifier, or "!important".
Number(n) == [k |-> "number", n |-> n, w |-> ""]
Percentage(n) == [k |-> "percent", n |-> n, w |-> "%"]
ZeroUnit(u) == [k |-> "zero", n |-> 0, w |-> u]
Word(w) == [k |-> "word", n |-> 0, w |-> w]
Bang == [k |-> "important", n |-> 0, w |-> "!important"]
Decl(property, value) == [property |-> property, value |-> value]

\* A value kept as a string that is none of "n%", digits or an identifier
Text(value) == [t |-> "text", v |-> value]

kebabToCamel(str) ==
  CASE str = "min-width" -> "minWidth"
    [] str = "max-width" -> "maxWidth"
    [] str = "min-height" -> "minHeight"
    [] str = "max-height" -> "maxHeight"
    [] str = "flex-grow" -> "flexGrow"
    [] str = "flex-shrink" -> "flexShrink"
    [] str = "flex-basis" -> "flexBasis"
    [] str = "fit-content" -> "fitContent"
    [] str = "justify-content" -> "justifyContent"
    [] str = "align-items" -> "alignItems"
    [] OTHER -> str

convertValue(value) ==
  IF Len(value) # 1 THEN Text(value)
  ELSE CASE value[1].k = "number" -> Num(value[1].n)
         [] value[1].k = "zero" -> Num(0)
         [] value[1].k = "percent" -> IF value[1].n = 0 THEN Num(0) ELSE Pct(value[1].n)
         [] value[1].k = "word" -> Kw(value[1].w)
         [] OTHER -> Text(value)

\* One part of a shorthand kept as the string it is
Part(tok) ==
  CASE tok.k = "number" -> NumStr(tok.n)
    [] tok.k = "percent" -> Pct(tok.n)
    [] tok.k = "word" -> Kw(tok.w)
    [] OTHER -> Text(<<tok>>)

\* /^\d+(\.\d+)?$/
IsDigits(tok) == tok.k = "number" /\ tok.n >= 0

Flex(grow, shrink, basis) == [flexGrow |-> grow, flexShrink |-> shrink, flexBasis |-> basis]

parseFlexShorthand(value, computedStyle) ==
  (IF Len(value) = 0 THEN Flex(Text(<<>>), Num(1), NumStr(0))
   ELSE IF Len(value) = 1
   THEN CASE value[1] = Word("auto") -> Flex(Num(1), Num(1), Kw("auto"))
          [] value[1] = Word("none") -> Flex(Num(0), Num(0), Kw("auto"))
          [] value[1] = Word("initial") -> Flex(Num(0), Num(1), Kw("auto"))
          [] OTHER -> Flex(convertValue(value), Num(1), NumStr(0))
   ELSE IF Len(value) = 2
   THEN IF IsDigits(value[2])
        THEN Flex(convertValue(<<value[1]>>), convertValue(<<value[2]>>), NumStr(0))
        ELSE Flex(convertValue(<<value[1]>>), Num(1), Part(value[2]))
   ELSE Flex(convertValue(<<value[1]>>), convertValue(<<value[2]>>), Part(value[3])))
    @@ computedStyle

\* value.includes("!important")
IncludesImportant(value) == \E i \in DOMAIN value : value[i] = Bang
\* value.replace(/\s*!important\s*$/, "").trim()
StripImportant(value) ==
  IF Len(value) > 0 /\ value[Len(value)] = Bang
  THEN SubSeq(value, 1, Len(value) - 1) ELSE value

\* The body of the loop of parseStyle, for one line
ParseLine(acc, line) ==
  IF line.property = "" \/ Len(line.value) = 0 THEN acc
  ELSE LET isImportant == IncludesImportant(line.value)
           value == IF isImportant THEN StripImportant(line.value) ELSE line.value
           camelProperty == kebabToCamel(line.property)
       IN ParsedStyle(
            IF camelProperty = "flex" THEN parseFlexShorthand(value, acc.computedStyle)
            ELSE (camelProperty :> convertValue(value)) @@ acc.computedStyle,
            IF isImportant THEN acc.importantProperties \cup {camelProperty}
            ELSE acc.importantProperties)

RECURSIVE ParseFrom(_, _, _)
ParseFrom(lines, k, acc) ==
  IF k > Len(lines) THEN acc
  ELSE Then(ParseLine(acc, lines[k]), LAMBDA acc1 : ParseFrom(lines, k + 1, acc1))

parseStyle(cssText) == ParseFrom(cssText, 1, ParsedStyle(EmptyStyle, {}))

\* The text of the classes registered at start-up (main.js registerClasses)
ClassText ==
  [c \in {"primary-button", "card", "locked", "stretch"} |->
     CASE c = "primary-button" ->
            <<Decl("width", <<Number(120)>>), Decl("height", <<Number(36)>>),
              Decl("min-width", <<Number(96)>>), Decl("max-width", <<Number(204)>>),
              Decl("margin", <<Number(6)>>)>>
       [] c = "card" ->
            <<Decl("min-width", <<Number(204)>>), Decl("min-height", <<Number(96)>>),
              Decl("padding", <<Number(12)>>), Decl("border", <<Number(2)>>),
              Decl("margin", <<Number(6)>>)>>
       [] c = "locked" ->
            <<Decl("width", <<Number(96), Bang>>), Decl("flex", <<Number(2), Bang>>)>>
       [] OTHER ->
            <<Decl("width", <<Percentage(100)>>), Decl("flex-grow", <<Number(1), Bang>>)>>]

\* registerClass: the registry holds the parse of each class
registeredClasses == [c \in DOMAIN ClassText |-> parseStyle(ClassText[c])]

\* One step of mergeStyles: the style object obj written over (final, imp).
MergeOne(acc, obj) ==
  LET cs == obj.computedStyle
      wins(p) == p \notin acc.imp \/ p \in obj.importantProperties
      written == {p \in DOMAIN cs : wins(p)}
  IN [final |-> [p \in DOMAIN acc.final \cup written |->
                   IF p \in written THEN cs[p] ELSE acc.final[p]],
      imp |-> acc.imp \cup (written \cap obj.importantProperties)]

RECURSIVE MergeFrom(_, _, _)
MergeFrom(objs, k, acc) ==
  IF k > Len(objs) THEN acc
  ELSE Then(MergeOne(acc, objs[k]), LAMBDA acc1 : MergeFrom(objs, k + 1, acc1))

mergeStyles(styleObjects) ==
  MergeFrom(styleObjects, 1, [final |-> EmptyStyle, imp |-> {}]).final

RECURSIVE ClassStyles(_, _)
ClassStyles(classes, k) ==
  IF k > Len(classes) THEN <<>>
  ELSE (IF classes[k] \in DOMAIN registeredClasses
        THEN <<registeredClasses[classes[k]]>> ELSE <<>>) \o ClassStyles(classes, k + 1)

getInstanceStyles(n) ==
  Then(ClassStyles(attrs[n].classes, 1) \o
         (IF DOMAIN attrs[n].style.computedStyle # {} THEN <<attrs[n].style>> ELSE <<>>),
       LAMBDA styleObjects : mergeStyles(styleObjects))

\* ------------------------------------------------------------------ style views

\* instance._computedStyles, computed on demand by the readers that do so
Sty(I, n) == IF I[n].cs = <<>> THEN getInstanceStyles(n) ELSE I[n].cs[1]
\* if (!instance._computedStyles) instance._computedStyles = getInstanceStyles(instance)
EnsureStyles(I, n) ==
  IF I[n].cs = <<>> THEN Then(getInstanceStyles(n), LAMBDA s : [I EXCEPT ![n].cs = <<s>>])
  ELSE I

\* The box model read from a computed style
BoxModelOf(s) ==
  [margin |-> [top |-> Nullish3(s, "marginTop", "margin", "margin"),
               right |-> Nullish3(s, "marginRight", "margin", "margin"),
               bottom |-> Nullish3(s, "marginBottom", "margin", "margin"),
               left |-> Nullish3(s, "marginLeft", "margin", "margin")],
   padding |-> [top |-> Nullish3(s, "paddingTop", "padding", "padding"),
                right |-> Nullish3(s, "paddingRight", "padding", "padding"),
                bottom |-> Nullish3(s, "paddingBottom", "padding", "padding"),
                left |-> Nullish3(s, "paddingLeft", "padding", "padding")],
   border |-> [top |-> Nullish3(s, "borderTopWidth", "borderWidth", "border"),
               right |-> Nullish3(s, "borderRightWidth", "borderWidth", "border"),
               bottom |-> Nullish3(s, "borderBottomWidth", "borderWidth", "border"),
               left |-> Nullish3(s, "borderLeftWidth", "borderWidth", "border")]]

getBoxModel(I, n) == Then(Sty(I, n), LAMBDA s : BoxModelOf(s))

getOuterWidth(I, n) ==
  Then(getBoxModel(I, n), LAMBDA bm : I[n].width + bm.margin.left + bm.margin.right)
getOuterHeight(I, n) ==
  Then(getBoxModel(I, n), LAMBDA bm : I[n].height + bm.margin.top + bm.margin.bottom)

\* The content box of a node: its size less padding and border.
ContentWidth(I, n) ==
  Then(getBoxModel(I, n), LAMBDA bm :
    I[n].width - bm.padding.left - bm.padding.right - bm.border.left - bm.border.right)
ContentHeight(I, n) ==
  Then(getBoxModel(I, n), LAMBDA bm :
    I[n].height - bm.padding.top - bm.padding.bottom - bm.border.top - bm.border.bottom)

\* The layout properties read from a computed style
LayoutPropertiesOf(s) ==
  [display |-> KwOr(s, "display", "vertical"),
   position |-> KwOr(s, "position", "relative"),
   gap |-> NumOr0(s, "gap"),
   padding |-> NumOr0(s, "padding"),
   alignItems |-> IF Truthy(Get(s, "alignItems")) THEN s["alignItems"].t
                  ELSE KwOr(s, "alignment", "start"),
   justifyContent |-> KwOr(s, "justifyContent", "start"),
   columns |-> IF Truthy(Get(s, "columns")) THEN s["columns"].v ELSE 2,
   fitContent |-> Truthy(Get(s, "fitContent")),
   top |-> Get(s, "top"), right |-> Get(s, "right"),
   bottom |-> Get(s, "bottom"), left |-> Get(s, "left"),
   anchorTarget |-> Get(s, "anchorTarget"),
   anchorPoint |-> KwOr(s, "anchorPoint", "center"),
   selfAnchor |-> KwOr(s, "selfAnchor", "center"),
   anchorOffsetX |-> NumOr0(s, "anchorOffsetX"),
   anchorOffsetY |-> NumOr0(s, "anchorOffsetY")]

getLayoutProperties(I, n) == Then(Sty(I, n), LAMBDA s : LayoutPropertiesOf(s))

hasPercentageSizing(s) ==
  \/ "percentWidth" \in DOMAIN s \/ "percentHeight" \in DOMAIN s
  \/ IsPercentString(Get(s, "width"))
  \/ IsPercentString(Get(s, "height"))
  \/ IsPercentString(Get(s, "flexBasis"))

\* ------------------------------------------------------------------ sizing

\* Math.min(Math.max(size, min), max) with the bounds the style declares
\* (the clamp that ends applyStylesToInstance), on one axis
clampStyleSize(size, mn, mx) ==
  LET afterMin == IF mn.t # "undef" THEN Max(size, mn.v) ELSE size
  IN IF mx.t # "undef" THEN Min(afterMin, mx.v) ELSE afterMin

\* applyMinMaxConstraints on one axis: the min test, then the max test
constrainSize(size, mn, mx) ==
  LET afterMin == IF mn.t # "undef" /\ size < mn.v THEN mn.v ELSE size
  IN IF mx.t # "undef" /\ afterMin > mx.v THEN mx.v ELSE afterMin

applyMinMaxConstraints(I, n, s) ==
  [I EXCEPT ![n].width = constrainSize(@, Get(s, "minWidth"), Get(s, "maxWidth")),
            ![n].height = constrainSize(@, Get(s, "minHeight"), Get(s, "maxHeight"))]

\* "percentWidth" in styles || (styles.width is a string ending in "%"), and its value
WantsPercent(s, pprop, prop) == pprop \in DOMAIN s \/ IsPercentString(Get(s, prop))
PercentValue(s, pprop, prop) == IF pprop \in DOMAIN s THEN s[pprop].v ELSE Get(s, prop).v

\* The percentage width/height part shared by applyStylesToInstance and
\* applyPercentageSizing: resolved against the parent's content box; reading the
\* parent's box model caches the parent's computed style.
ResolvePercentWH(I, n, s) ==
  LET p == getParent(n)
      doW == WantsPercent(s, "percentWidth", "width")
               /\ PercentValue(s, "percentWidth", "width") > 0
      doH == WantsPercent(s, "percentHeight", "height")
               /\ PercentValue(s, "percentHeight", "height") > 0
  IN IF ~(doW \/ doH) THEN I
     ELSE Then(EnsureStyles(I, p), LAMBDA J :
            [J EXCEPT
               ![n].width = IF doW
                            THEN Div(ContentWidth(J, p)
                                       * PercentValue(s, "percentWidth", "width"), 100)
                            ELSE @,
               ![n].height = IF doH
                             THEN Div(ContentHeight(J, p)
                                        * PercentValue(s, "percentHeight", "height"), 100)
                             ELSE @])

isHorizontal(s) == Get(s, "display").t = "horizontal"
isVertical(s) == Get(s, "display").t = "vertical" \/ ~Truthy(Get(s, "display"))

applyStylesToInstance(I, n, styles) ==
  LET p == getParent(n)
      fb == Get(styles, "flexBasis")
      useBasis == p # NoParent /\ (isHorizontal(styles) \/ isVertical(styles))
                    /\ IsNum(fb) /\ fb.v # 0
      \* percentage sizes, against the parent's content box
      Percent(J) == IF p # NoParent THEN ResolvePercentWH(J, n, styles) ELSE J
      \* a numeric flexBasis sets the size on the axis of the node's own display
      Basis(J) ==
        [J EXCEPT ![n].width = IF useBasis /\ isHorizontal(styles) THEN fb.v ELSE @,
                  ![n].height = IF useBasis /\ ~isHorizontal(styles) THEN fb.v ELSE @]
      \* explicit numeric width and height
      Explicit(J) ==
        [J EXCEPT ![n].width = IF IsNum(Get(styles, "width")) THEN styles["width"].v ELSE @,
                  ![n].height = IF IsNum(Get(styles, "height")) THEN styles["height"].v ELSE @]
      Clamp(J) ==
        [J EXCEPT
           ![n].width = clampStyleSize(@, Get(styles, "minWidth"), Get(styles, "maxWidth")),
           ![n].height = clampStyleSize(@, Get(styles, "minHeight"), Get(styles, "maxHeight"))]
  IN Clamp(Explicit(Basis(Percent([I EXCEPT ![n].cs = <<styles>>]))))

applyPercentageSizing(I, n) ==
  IF I[n].cs = <<>> \/ getParent(n) = NoParent THEN I
  ELSE
    LET s == I[n].cs[1]
        p == getParent(n)
        fb == Get(s, "flexBasis")
        doB == IsPercentString(fb) /\ fb.v > 0
        \* a percentage flexBasis, on the axis of the node's own display
        Basis(J) ==
          [J EXCEPT ![n].width = IF isHorizontal(s)
                                 THEN Div(ContentWidth(J, p) * fb.v, 100) ELSE @,
                    ![n].height = IF ~isHorizontal(s) /\ isVertical(s)
                                  THEN Div(ContentHeight(J, p) * fb.v, 100) ELSE @]
    IN Then(ResolvePercentWH(I, n, s), LAMBDA I1 :
         Then(IF doB THEN Basis(EnsureStyles(I1, p)) ELSE I1, LAMBDA I3 :
           applyMinMaxConstraints(I3, n, s)))

\* ------------------------------------------------------------------ flow layout
\* layoutVertical and layoutHorizontal are the same text with the axes exchanged,
\* except for the first computation of availableSpace (see AvailableSpace).  They
\* are modelled by operators that take the main axis: "v" (main = height, y;
\* cross = width, x) or "h".

Lead(sides, axis) == IF axis = "v" THEN sides.top ELSE sides.left
Trail(sides, axis) == IF axis = "v" THEN sides.bottom ELSE sides.right
Cross(axis) == IF axis = "v" THEN "h" ELSE "v"
Size(I, n, axis) == IF axis = "v" THEN I[n].height ELSE I[n].width
Pos(I, n, axis) == IF axis = "v" THEN I[n].y ELSE I[n].x
SetSize(I, n, axis, val) ==
  IF axis = "v" THEN [I EXCEPT ![n].height = val] ELSE [I EXCEPT ![n].width = val]
SetPos(I, n, axis, val) ==
  IF axis = "v" THEN [I EXCEPT ![n].y = val] ELSE [I EXCEPT ![n].x = val]
ContentSize(I, n, axis) == IF axis = "v" THEN ContentHeight(I, n) ELSE ContentWidth(I, n)
OuterSize(I, n, axis) == IF axis = "v" THEN getOuterHeight(I, n) ELSE getOuterWidth(I, n)
MinProp(axis) == IF axis = "v" THEN "minHeight" ELSE "minWidth"
MaxProp(axis) == IF axis = "v" THEN "maxHeight" ELSE "maxWidth"

\* parseFloat of a style value: [nan, v]
ParseFloat(val) ==
  IF val.t \in {"num", "numstr", "pct"} THEN [nan |-> FALSE, v |-> val.v]
  ELSE [nan |-> TRUE, v |-> 0]

\* The first pass of a layouter over one child: its flex factors and base size.
\* parseFloat(undefined) is NaN and typeof NaN is "number", so an undeclared
\* flexShrink stays NaN (shrinkNaN); NaN > 0 is false.
FlexItemFrom(cs, bm, cur, c, axis) ==
  LET g == ParseFloat(Get(cs, "flexGrow"))
      flexGrow == IF g.nan THEN 0 ELSE g.v
      sh == ParseFloat(Get(cs, "flexShrink"))
      fb == Get(cs, "flexBasis")
      base == IF fb.t = "undef" \/ fb.t = "auto" THEN cur
              ELSE IF IsNum(fb) THEN fb.v
              ELSE IF ~IsPercentString(fb)
                   THEN (IF ParseFloat(fb).nan \/ ParseFloat(fb).v = 0 THEN cur
                         ELSE ParseFloat(fb).v)
              ELSE cur
  IN [instance |-> c,
      isFlex |-> flexGrow > 0 \/ (~sh.nan /\ sh.v > 0),
      flexGrow |-> flexGrow,
      shrinkNaN |-> sh.nan,
      flexShrink |-> sh.v,
      base |-> base,
      margins |-> Lead(bm.margin, axis) + Trail(bm.margin, axis),
      min |-> Get(cs, MinProp(axis)),
      max |-> Get(cs, MaxProp(axis)),
      target |-> base,
      constrained |-> FALSE]

FlexItemOf(I, c, axis) ==
  Then(IF I[c].cs = <<>> THEN EmptyStyle ELSE I[c].cs[1], LAMBDA cs :
    Then(getBoxModel(I, c), LAMBDA bm : FlexItemFrom(cs, bm, Size(I, c, axis), c, axis)))

ClassifyChildren(I, chs, axis) == [k \in 1 .. Len(chs) |-> FlexItemOf(I, chs[k], axis)]

RECURSIVE SumOver(_, _, _)
\* the sum of f[k] over the indices k .. Len(f) that are in the set keep
SumOver(f, keep, k) ==
  IF k > Len(f) THEN 0
  ELSE (IF k \in keep THEN f[k] ELSE 0) + SumOver(f, keep, k + 1)

FlexIdx(items) == {k \in DOMAIN items : items[k].isFlex}
FixedIdx(items) == {k \in DOMAIN items : ~items[k].isFlex}

TotalFixed(I, chs, items, axis) ==
  SumOver([k \in DOMAIN items |-> OuterSize(I, chs[k], axis)], FixedIdx(items), 1)
TotalFlexGrow(items) ==
  SumOver([k \in DOMAIN items |-> items[k].flexGrow], FlexIdx(items), 1)
\* totalFlexShrinkFactors: NaN as soon as one flex item has no declared flexShrink
TotalShrinkNaN(items) == \E k \in FlexIdx(items) : items[k].shrinkNaN
TotalShrinkFactors(items) ==
  SumOver([k \in DOMAIN items |-> items[k].flexShrink * items[k].base], FlexIdx(items), 1)
InitialFlexSize(items) ==
  SumOver([k \in DOMAIN items |-> items[k].base + items[k].margins], FlexIdx(items), 1)
TotalGaps(chs, gap) == IF Len(chs) > 1 THEN (Len(chs) - 1) * gap ELSE 0

\* The space left before the flex items are counted
AvailableSpace_BeforeFlex(content, totalFixed, totalGaps, initialFlex, axis) ==
  content - totalFixed - totalGaps

\* availableSpace as it stands before the grow/shrink branches.  The vertical
\* layouter starts from content - fixed - gaps, the horizontal one from
\* content - fixed - initialFlex - gaps; both then apply the same adjustment.
AvailableSpace(content, totalFixed, totalGaps, initialFlex, axis) ==
  LET first == IF axis = "v" THEN content - totalFixed - totalGaps
               ELSE content - totalFixed - initialFlex - totalGaps
      totalAvailable == content - totalGaps
  IN IF initialFlex + totalFixed > totalAvailable
     THEN totalAvailable - totalFixed - initialFlex
     ELSE Min(first, totalAvailable - totalFixed - initialFlex)

\* The min test then the max test of the grow loop: [size, wasConstrained]
growClamp(size, mn, mx) ==
  LET lo == mn.t # "undef" /\ size < mn.v
      afterMin == IF lo THEN mn.v ELSE size
      hi == mx.t # "undef" /\ afterMin > mx.v
  IN [size |-> IF hi THEN mx.v ELSE afterMin, wasConstrained |-> lo \/ hi]

\* One item of one pass of the grow loop, handing out half of the item's share
GrowItem_HalfShare(g, k, remainingSpace) ==
  LET item == g.items[k]
  IN IF ~item.isFlex \/ item.constrained \/ ~(item.flexGrow > 0) THEN g
     ELSE
       Then(growClamp(item.target + Div(item.flexGrow * remainingSpace, 2 * g.remGrow),
                      item.min, item.max), LAMBDA c :
         [items |-> [g.items EXCEPT ![k].target = c.size,
                                    ![k].constrained = c.wasConstrained],
          remGrow |-> IF c.wasConstrained THEN g.remGrow - item.flexGrow ELSE g.remGrow,
          consumed |-> g.consumed + (c.size - item.target),
          still |-> g.still \/ ~c.wasConstrained])

\* One item of one pass of the grow loop, handing every item the whole space
GrowItem_WholeSpace(g, k, remainingSpace) ==
  LET item == g.items[k]
  IN IF ~item.isFlex \/ item.constrained \/ ~(item.flexGrow > 0) THEN g
     ELSE
       Then(growClamp(item.target + remainingSpace, item.min, item.max), LAMBDA c :
         [items |-> [g.items EXCEPT ![k].target = c.size,
                                    ![k].constrained = c.wasConstrained],
          remGrow |-> IF c.wasConstrained THEN g.remGrow - item.flexGrow ELSE g.remGrow,
          consumed |-> g.consumed + (c.size - item.target),
          still |-> g.still \/ ~c.wasConstrained])

\* One item of one pass of the grow loop; g = [items, remGrow, consumed, still]
GrowItem(g, k, remainingSpace) ==
  LET item == g.items[k]
  IN IF ~item.isFlex \/ item.constrained \/ ~(item.flexGrow > 0) THEN g
     ELSE
       Then(growClamp(item.target + Div(item.flexGrow * remainingSpace, g.remGrow),
                      item.min, item.max), LAMBDA c :
         [items |-> [g.items EXCEPT ![k].target = c.size,
                                    ![k].constrained = c.wasConstrained],
          remGrow |-> IF c.wasConstrained THEN g.remGrow - item.flexGrow ELSE g.remGrow,
          consumed |-> g.consumed + (c.size - item.target),
          still |-> g.still \/ ~c.wasConstrained])

RECURSIVE GrowPass(_, _, _)
GrowPass(g, k, remainingSpace) ==
  IF k > Len(g.items) THEN g
  ELSE Then(GrowItem(g, k, remainingSpace), LAMBDA g1 : GrowPass(g1, k + 1, remainingSpace))

RECURSIVE GrowLoop(_, _, _, _, _)
\* while (remainingSpace > 0.1 && remainingFlexGrow > 0 && stillFlexing) { ... }
\* returns [items, iterations]
GrowLoop(items, remainingSpace, remainingFlexGrow, stillFlexing, iterations) ==
  IF ~(remainingSpace > 0 /\ remainingFlexGrow > 0 /\ stillFlexing)
  THEN [items |-> items, iterations |-> iterations]
  ELSE
    Then(GrowPass([items |-> items, remGrow |-> remainingFlexGrow,
                   consumed |-> 0, still |-> FALSE], 1, remainingSpace), LAMBDA g :
      IF g.consumed <= 0      \* spaceConsumedThisPass < 0.01: break
      THEN [items |-> g.items, iterations |-> iterations + 1]
      ELSE GrowLoop(g.items, remainingSpace - g.consumed, g.remGrow, g.still,
                    iterations + 1))

\* The reduction the shrink branch takes from one item
ShrinkOne(item, availableSpace, totalFlexShrinkFactors) ==
  Then(Max(0, item.base - Div(Abs(availableSpace) * item.flexShrink * item.base,
                              totalFlexShrinkFactors)), LAMBDA t :
    [item EXCEPT !.target = IF item.min.t # "undef" /\ t < item.min.v THEN item.min.v ELSE t])

\* The shrink branch: one pass over the flex items
ShrinkItems(items, availableSpace, totalFlexShrinkFactors) ==
  [k \in DOMAIN items |->
     IF ~items[k].isFlex THEN items[k]
     ELSE IF items[k].flexShrink > 0
     THEN ShrinkOne(items[k], availableSpace, totalFlexShrinkFactors)
     ELSE [items[k] EXCEPT !.target = items[k].base]]

\* The grow and shrink branches on the classified children
Distribute(items, availableSpace) ==
  IF availableSpace > 0 /\ TotalFlexGrow(items) > 0
  THEN GrowLoop(items, availableSpace, TotalFlexGrow(items), TRUE, 0).items
  ELSE IF availableSpace < 0 /\ ~TotalShrinkNaN(items) /\ TotalShrinkFactors(items) > 0
  THEN ShrinkItems(items, availableSpace, TotalShrinkFactors(items))
  ELSE items

\* Steps 1-3 of a layouter: the flex items with their target sizes
FlexTargets(I, container, layoutProps, chs, axis) ==
  Then(ClassifyChildren(I, chs, axis), LAMBDA items :
    Then(TotalFixed(I, chs, items, axis), LAMBDA totalFixed :
      Then(InitialFlexSize(items), LAMBDA initialFlex :
        Then(AvailableSpace(ContentSize(I, container, axis), totalFixed,
                            TotalGaps(chs, layoutProps.gap), initialFlex, axis),
             LAMBDA availableSpace : Distribute(items, availableSpace)))))

RECURSIVE ApplySizes(_, _, _, _)
\* flexItems.forEach(item => item.instance.height = item.targetHeight)
ApplySizes(I, items, axis, k) ==
  IF k > Len(items) THEN I
  ELSE Then(IF items[k].isFlex
            THEN SetSize(I, items[k].instance, axis, items[k].target) ELSE I, LAMBDA J :
         ApplySizes(J, items, axis, k + 1))

\* Step 5 of a layouter: the offsets justifyContent asks for
\* Offsets that put no space between the children
JustifyOffsets_Packed(justifyContent, remaining, n) ==
  [startOffset |-> 0, spaceBetween |-> 0, spaceAround |-> 0]

JustifyOffsets(justifyContent, remaining, n) ==
  [startOffset |-> CASE justifyContent = "center" -> Div(remaining, 2)
                     [] justifyContent = "end" -> remaining
                     [] OTHER -> 0,
   spaceBetween |-> IF justifyContent = "space-between" /\ n > 1
                    THEN Div(remaining, n - 1) ELSE 0,
   spaceAround |-> IF justifyContent = "space-around" /\ n > 0
                   THEN Div(remaining, n) ELSE 0]

\* The cross-axis position alignSelf (or the container's alignItems) gives a child
CrossPosition(I, container, c, alignSelf, axis) ==
  LET x == Cross(axis)
      origin == Pos(I, container, x)
  IN Then(getBoxModel(I, container), LAMBDA cbm :
       Then(getBoxModel(I, c), LAMBDA bm :
         CASE alignSelf = "center" ->
                origin + Lead(cbm.padding, x) + Lead(cbm.border, x)
                  + Div(ContentSize(I, container, x)
                          - (Size(I, c, x) + Lead(bm.margin, x) + Trail(bm.margin, x)), 2)
                  + Lead(bm.margin, x)
           [] alignSelf = "end" ->
                origin + Size(I, container, x) - Trail(cbm.padding, x)
                  - Trail(cbm.border, x) - Size(I, c, x) - Trail(bm.margin, x)
           [] OTHER ->
                origin + Lead(cbm.padding, x) + Lead(cbm.border, x) + Lead(bm.margin, x)))

\* One child of the positioning step: its main-axis and cross-axis coordinates
PositionChild(I, container, layoutProps, c, axis, cur) ==
  LET cs == IF I[c].cs = <<>> THEN EmptyStyle ELSE I[c].cs[1]
      alignSelf == KwOr(cs, "alignSelf", layoutProps.alignItems)
  IN Then(getBoxModel(I, c), LAMBDA bm :
       Then(SetPos(I, c, axis, Pos(I, container, axis) + cur + Lead(bm.margin, axis)),
            LAMBDA I1 :
         SetPos(I1, c, Cross(axis), CrossPosition(I1, container, c, alignSelf, axis))))

\* currentY after a child, the size of the child forgotten
Advance_SkipsSize(I, layoutProps, chs, k, axis, off, cur) ==
  Then(getBoxModel(I, chs[k]), LAMBDA bm :
    cur + Lead(bm.margin, axis) + Trail(bm.margin, axis)
      + (IF k < Len(chs)
         THEN layoutProps.gap + off.spaceBetween
                + (IF layoutProps.justifyContent = "space-around"
                   THEN off.spaceAround ELSE 0)
         ELSE 0))

\* currentY after a child: past the child, its margins, the gap and the
\* justifyContent spacing (none after the last child)
Advance(I, layoutProps, chs, k, axis, off, cur) ==
  Then(getBoxModel(I, chs[k]), LAMBDA bm :
    cur + Lead(bm.margin, axis) + Size(I, chs[k], axis) + Trail(bm.margin, axis)
      + (IF k < Len(chs)
         THEN layoutProps.gap + off.spaceBetween
                + (IF layoutProps.justifyContent = "space-around"
                   THEN off.spaceAround ELSE 0)
         ELSE 0))

RECURSIVE PositionChildren(_, _, _, _, _, _, _)
\* children.forEach((child, index) => ...) of the positioning step; st.cur is currentY
PositionChildren(I, container, layoutProps, chs, axis, off, st) ==
  IF st.k > Len(chs) THEN I
  ELSE
    Then(PositionChild(I, container, layoutProps, chs[st.k], axis, st.cur), LAMBDA I2 :
      Then(Advance(I, layoutProps, chs, st.k, axis, off, st.cur), LAMBDA next :
        PositionChildren(I2, container, layoutProps, chs, axis, off,
                         [k |-> st.k + 1, cur |-> next])))

\* the start of the first child taken from the container's edge, not from its
\* content box
StartOffset_FromEdge(I, container, layoutProps, chs, axis, off) ==
  off.startOffset
    + (IF layoutProps.justifyContent = "space-around" /\ Len(chs) > 0
       THEN Div(off.spaceAround, 2) ELSE 0)

\* Where the first child starts on the main axis
StartOffset(I, container, layoutProps, chs, axis, off) ==
  Then(getBoxModel(I, container), LAMBDA cbm :
    Lead(cbm.padding, axis) + Lead(cbm.border, axis) + off.startOffset
      + (IF layoutProps.justifyContent = "space-around" /\ Len(chs) > 0
         THEN Div(off.spaceAround, 2) ELSE 0))

\* Steps 4 and 5 of a layouter: write the flex sizes, then place every child
PlaceChildren(I, container, layoutProps, chs, items, axis) ==
  Then(ApplySizes(I, items, axis, 1), LAMBDA I1 :
    Then(SumOver([k \in DOMAIN chs |-> OuterSize(I1, chs[k], axis)], DOMAIN chs, 1)
           + TotalGaps(chs, layoutProps.gap), LAMBDA actualTotal :
      Then(JustifyOffsets(layoutProps.justifyContent,
                          Max(0, ContentSize(I1, container, axis) - actualTotal),
                          Len(chs)), LAMBDA off :
        Then(StartOffset(I1, container, layoutProps, chs, axis, off), LAMBDA start :
          PositionChildren(I1, container, layoutProps, chs, axis, off,
                           [k |-> 1, cur |-> start])))))

FlowLayout(I, container, layoutProps, chs, axis) ==
  Then(FlexTargets(I, container, layoutProps, chs, axis), LAMBDA items :
    PlaceChildren(I, container, layoutProps, chs, items, axis))

layoutVertical(I, container, layoutProps, chs) ==
  FlowLayout(I, container, layoutProps, chs, "v")

layoutHorizontal(I, container, layoutProps, chs) ==
  FlowLayout(I, container, layoutProps, chs, "h")

\* ------------------------------------------------------------------ grid

RECURSIVE MaxOver(_, _)
MaxOver(f, k) == IF k > Len(f) THEN 0 ELSE Max(f[k], MaxOver(f, k + 1))
Ceil(a, b) == (a + b - 1) \div b

\* The position of one grid item inside its cell, relative to the container
GridItemAt(I, c, bm, cs, g, k) ==
  LET row == (k - 1) \div g.columns
      col == (k - 1) % g.columns
      cellLeft == g.baseX + col * (g.maxCellWidth + g.gap + g.extraColumnGap)
      cellTop == g.baseY + row * (g.maxCellHeight + g.gap)
      justifySelf == KwOr(cs, "justifySelf", "start")
      alignSelf == KwOr(cs, "alignSelf", g.alignItems)
      outerWidth == I[c].width + bm.margin.left + bm.margin.right
      outerHeight == I[c].height + bm.margin.top + bm.margin.bottom
  IN [x |-> CASE justifySelf = "center" ->
                   cellLeft + Div(g.maxCellWidth - outerWidth, 2) + bm.margin.left
              [] justifySelf = "end" ->
                   cellLeft + g.maxCellWidth - I[c].width - bm.margin.right
              [] OTHER -> cellLeft + bm.margin.left,
      y |-> CASE alignSelf = "center" ->
                   cellTop + Div(g.maxCellHeight - outerHeight, 2) + bm.margin.top
              [] alignSelf = "end" ->
                   cellTop + g.maxCellHeight - I[c].height - bm.margin.bottom
              [] OTHER -> cellTop + bm.margin.top]

RECURSIVE GridPlace(_, _, _, _, _)
GridPlace(I, container, chs, g, k) ==
  IF k > Len(chs) THEN I
  ELSE
    Then(getBoxModel(I, chs[k]), LAMBDA bm :
      Then(GridItemAt(I, chs[k], bm,
                      IF I[chs[k]].cs = <<>> THEN EmptyStyle ELSE I[chs[k]].cs[1], g, k),
           LAMBDA at :
        Then([I EXCEPT ![chs[k]].x = I[container].x + at.x,
                       ![chs[k]].y = I[container].y + at.y], LAMBDA I1 :
          GridPlace(I1, container, chs, g, k + 1))))

\* The geometry of the grid: cell size, origin and the extra gap between columns
GridOf(layoutProps, cbm, contentWidth, maxCellWidth, maxCellHeight) ==
  LET columns == layoutProps.columns
      gap == layoutProps.gap
      extraWidth == Max(0, contentWidth - (maxCellWidth * columns + (columns - 1) * gap))
      jc == layoutProps.justifyContent
      startOffsetX == CASE jc = "center" -> Div(extraWidth, 2)
                        [] jc = "end" -> extraWidth
                        [] jc = "space-around" -> Div(Div(extraWidth, columns), 2)
                        [] OTHER -> 0
      extraColumnGap == CASE jc = "space-between" ->
                               (IF columns > 1 THEN Div(extraWidth, columns - 1) ELSE 0)
                          [] jc = "space-around" -> Div(extraWidth, columns)
                          [] OTHER -> 0
  IN [columns |-> columns, gap |-> gap, alignItems |-> layoutProps.alignItems,
      maxCellWidth |-> maxCellWidth, maxCellHeight |-> maxCellHeight,
      extraColumnGap |-> extraColumnGap,
      baseX |-> cbm.padding.left + cbm.border.left + startOffsetX,
      baseY |-> cbm.padding.top + cbm.border.top]

layoutGrid(I, container, layoutProps, chs) ==
  Then(getBoxModel(I, container), LAMBDA cbm :
    Then(ContentWidth(I, container), LAMBDA contentWidth :
      Then(MaxOver([k \in DOMAIN chs |-> getOuterWidth(I, chs[k])], 1), LAMBDA maxCellWidth :
        Then(MaxOver([k \in DOMAIN chs |-> getOuterHeight(I, chs[k])], 1),
             LAMBDA maxCellHeight :
          Then(GridOf(layoutProps, cbm, contentWidth, maxCellWidth, maxCellHeight),
               LAMBDA g : GridPlace(I, container, chs, g, 1))))))

applyNormalFlowLayout(I, n, layoutProps, chs) ==
  CASE layoutProps.display = "vertical" -> layoutVertical(I, n, layoutProps, chs)
    [] layoutProps.display = "horizontal" -> layoutHorizontal(I, n, layoutProps, chs)
    [] layoutProps.display = "grid" -> layoutGrid(I, n, layoutProps, chs)
    [] OTHER -> I

\* ------------------------------------------------------------------ fit-content

\* only "absolute" taken out of the flow
IsOutOfFlow_AbsoluteOnly(position) == position = "absolute"

\* position === "absolute" || position === "anchor"
IsOutOfFlow(position) == position = "absolute" \/ position = "anchor"

RECURSIVE FilterLayoutChildren(_, _, _)
\* the filter of getLayoutChildren; _layoutOrder is never set, so the sort keeps
\* the child-list order
FilterLayoutChildren(I, chs, k) ==
  IF k > Len(chs) THEN <<>>
  ELSE (IF attrs[chs[k]].doLayout /\ attrs[chs[k]].isVisible
             /\ Then(Sty(I, chs[k]), LAMBDA s : ~IsOutOfFlow(KwOr(s, "position", "relative")))
        THEN <<chs[k]>> ELSE <<>>) \o FilterLayoutChildren(I, chs, k + 1)

getLayoutChildren(I, n) == FilterLayoutChildren(I, children(n), 1)

RECURSIVE EnsureChildStyles(_, _, _)
\* the filter computes and caches the style of every enabled, visible child
EnsureChildStyles(I, chs, k) ==
  IF k > Len(chs) THEN I
  ELSE Then(IF attrs[chs[k]].doLayout /\ attrs[chs[k]].isVisible
            THEN EnsureStyles(I, chs[k]) ELSE I, LAMBDA I1 :
         EnsureChildStyles(I1, chs, k + 1))

\* The size that fits the children: m = [sumW, sumH, maxW, maxH, count]
\* A fit that leaves the gaps between the children out
FitSize_NoGaps(I, n, layoutProps, bm, m) ==
  LET padW == bm.padding.left + bm.padding.right + bm.border.left + bm.border.right
      padH == bm.padding.top + bm.padding.bottom + bm.border.top + bm.border.bottom
  IN CASE layoutProps.display = "vertical" ->
            [I EXCEPT ![n].height = m.sumH + padH, ![n].width = m.maxW + padW]
       [] layoutProps.display = "horizontal" ->
            [I EXCEPT ![n].width = m.sumW + padW, ![n].height = m.maxH + padH]
       [] OTHER -> I

FitSize(I, n, layoutProps, bm, m) ==
  LET padW == bm.padding.left + bm.padding.right + bm.border.left + bm.border.right
      padH == bm.padding.top + bm.padding.bottom + bm.border.top + bm.border.bottom
      gaps == IF m.count > 1 THEN (m.count - 1) * layoutProps.gap ELSE 0
      columns == layoutProps.columns
      rows == Ceil(m.count, columns)
  IN CASE layoutProps.display = "vertical" ->
            [I EXCEPT ![n].height = m.sumH + gaps + padH, ![n].width = m.maxW + padW]
       [] layoutProps.display = "horizontal" ->
            [I EXCEPT ![n].width = m.sumW + gaps + padW, ![n].height = m.maxH + padH]
       [] layoutProps.display = "grid" ->
            [I EXCEPT ![n].width = columns * m.maxW + (columns - 1) * layoutProps.gap + padW,
                      ![n].height = rows * m.maxH + (rows - 1) * layoutProps.gap + padH]
       [] OTHER -> I

\* The outer sizes of the layout children, summed and maximised
ChildExtents(I, chs) ==
  Then([k \in DOMAIN chs |-> getOuterWidth(I, chs[k])], LAMBDA outerW :
    Then([k \in DOMAIN chs |-> getOuterHeight(I, chs[k])], LAMBDA outerH :
      [sumW |-> SumOver(outerW, DOMAIN chs, 1), sumH |-> SumOver(outerH, DOMAIN chs, 1),
       maxW |-> MaxOver(outerW, 1), maxH |-> MaxOver(outerH, 1), count |-> Len(chs)]))

applyFitContentSizing(I, n, layoutProps) ==
  Then(EnsureChildStyles(I, children(n), 1), LAMBDA I1 :
    Then(getLayoutChildren(I1, n), LAMBDA chs :
      Then(getBoxModel(I1, n), LAMBDA bm :
        Then(ChildExtents(I1, chs), LAMBDA m : FitSize(I1, n, layoutProps, bm, m)))))

\* ------------------------------------------------------------------ out of flow

\* The coordinates positionAbsolute gives n inside the content box of its parent p
AbsoluteAt(I, n, p, layoutProps, pbm, bm) ==
  LET contentLeft == I[p].x + pbm.padding.left + pbm.border.left
      contentTop == I[p].y + pbm.padding.top + pbm.border.top
      contentRight == I[p].x + I[p].width - pbm.padding.right - pbm.border.right
      contentBottom == I[p].y + I[p].height - pbm.padding.bottom - pbm.border.bottom
  IN [x |-> IF layoutProps.left.t # "undef"
            THEN contentLeft + layoutProps.left.v + bm.margin.left
            ELSE IF layoutProps.right.t # "undef"
            THEN contentRight - layoutProps.right.v - I[n].width - bm.margin.right
            ELSE contentLeft + bm.margin.left,
      y |-> IF layoutProps.top.t # "undef"
            THEN contentTop + layoutProps.top.v + bm.margin.top
            ELSE IF layoutProps.bottom.t # "undef"
            THEN contentBottom - layoutProps.bottom.v - I[n].height - bm.margin.bottom
            ELSE contentTop + bm.margin.top]

positionAbsolute(I, n, layoutProps) ==
  IF getParent(n) = NoParent THEN I
  ELSE
    Then(EnsureStyles(I, getParent(n)), LAMBDA I1 :
      Then(getBoxModel(I1, getParent(n)), LAMBDA pbm :
        Then(getBoxModel(I1, n), LAMBDA bm :
          Then(AbsoluteAt(I1, n, getParent(n), layoutProps, pbm, bm), LAMBDA at :
            [I1 EXCEPT ![n].x = at.x, ![n].y = at.y]))))

\* getAnchorPoint(instance, anchor, true): the offset of the anchor point
AnchorOffset(I, n, anchor) ==
  [offsetX |-> CASE anchor \in {"top-left", "left", "center-left", "bottom-left"} -> 0
                 [] anchor \in {"top-right", "right", "center-right", "bottom-right"} ->
                      I[n].width
                 [] OTHER -> Div(I[n].width, 2),
   offsetY |-> CASE anchor \in {"top-left", "top", "top-center", "top-right"} -> 0
                 [] anchor \in {"bottom-left", "bottom", "bottom-center", "bottom-right"} ->
                      I[n].height
                 [] OTHER -> Div(I[n].height, 2)]

getAnchorPoint(I, n, anchor) ==
  Then(AnchorOffset(I, n, anchor), LAMBDA o :
    [x |-> I[n].x + o.offsetX, y |-> I[n].y + o.offsetY])

\* The target positionAnchor resolves (NoParent when there is none).  A tag is
\* looked up over all instances of the host, the first match winning.
AnchorTarget(n, layoutProps) ==
  LET tgt == layoutProps.anchorTarget
      tagged == {m \in Nodes : hasTags(m, tgt.t)}
  IN IF ~Truthy(tgt) THEN getParent(n)
     ELSE IF ~IsString(tgt) THEN NoParent
     ELSE IF tgt.t = "parent" THEN getParent(n)
     ELSE IF tagged = {} THEN NoParent
     ELSE CHOOSE m \in tagged : \A o \in tagged : m <= o

\* positionAnchor without the anchorOffsetX/anchorOffsetY shift
MoveToAnchor_NoOffsets(I, n, layoutProps, targetPoint, selfPoint) ==
  [I EXCEPT
     ![n].x = @ + (targetPoint.x - (@ + selfPoint.offsetX)),
     ![n].y = @ + (targetPoint.y - (@ + selfPoint.offsetY))]

\* instance.x += offsetX; instance.y += offsetY, towards the target's anchor point
MoveToAnchor(I, n, layoutProps, targetPoint, selfPoint) ==
  [I EXCEPT
     ![n].x = @ + (targetPoint.x - (@ + selfPoint.offsetX) + layoutProps.anchorOffsetX),
     ![n].y = @ + (targetPoint.y - (@ + selfPoint.offsetY) + layoutProps.anchorOffsetY)]

\* positionAnchor falling back to the origin of the layout when no target resolves
positionAnchor_DefaultsToOrigin(I, n, layoutProps) ==
  Then(AnchorTarget(n, layoutProps), LAMBDA target :
    IF target = NoParent
    THEN [I EXCEPT ![n].x = layoutProps.anchorOffsetX, ![n].y = layoutProps.anchorOffsetY]
    ELSE Then(getAnchorPoint(I, target, layoutProps.anchorPoint), LAMBDA targetPoint :
           Then(AnchorOffset(I, n, layoutProps.selfAnchor), LAMBDA selfPoint :
             MoveToAnchor(I, n, layoutProps, targetPoint, selfPoint))))

positionAnchor(I, n, layoutProps) ==
  Then(AnchorTarget(n, layoutProps), LAMBDA target :
    IF target = NoParent THEN I
    ELSE Then(getAnchorPoint(I, target, layoutProps.anchorPoint), LAMBDA targetPoint :
           Then(AnchorOffset(I, n, layoutProps.selfAnchor), LAMBDA selfPoint :
             MoveToAnchor(I, n, layoutProps, targetPoint, selfPoint))))

applyOutOfFlowLayout(I, n) ==
  Then(EnsureStyles(I, n), LAMBDA I1 :
    Then(getLayoutProperties(I1, n), LAMBDA layoutProps :
      CASE layoutProps.position = "absolute" -> positionAbsolute(I1, n, layoutProps)
        [] layoutProps.position = "anchor" -> positionAnchor(I1, n, layoutProps)
        [] OTHER -> I1))

\* ------------------------------------------------------------------ tree driver
\* A pass carries P = [I, log]: the tree and the phases run so far.

Ev(e, n) == [e |-> e, n |-> n, inFlow |-> <<>>, outOfFlow |-> <<>>]
Logged(P, ev) == [P EXCEPT !.log = Append(@, ev)]

\* Phase 1: getInstanceStyles, applyStylesToInstance
StylePhase(P, n) ==
  Then(getInstanceStyles(n), LAMBDA styles :
    [I |-> applyStylesToInstance(P.I, n, styles), log |-> Append(P.log, Ev("begin", n))])

\* Phase 2 of processInstance: a node without a parent is laid out as "relative"
LayoutPropsForced(I, n) ==
  Then(getLayoutProperties(I, n), LAMBDA lp :
    IF getParent(n) = NoParent THEN [lp EXCEPT !.position = "relative"] ELSE lp)

\* One enabled, visible child of the loop of phase 3
PartitionOne(acc, c, childStyles) ==
  LET childPosition == KwOr(childStyles, "position", "relative")
  IN [I |-> [acc.I EXCEPT ![c].cs = <<childStyles>>],
      inFlow |-> IF IsOutOfFlow(childPosition) THEN acc.inFlow
                 ELSE Append(acc.inFlow, c),
      outOfFlow |-> IF IsOutOfFlow(childPosition) THEN Append(acc.outOfFlow, c)
                    ELSE acc.outOfFlow,
      percentSized |-> IF hasPercentageSizing(childStyles)
                       THEN Append(acc.percentSized, c) ELSE acc.percentSized]

RECURSIVE PartitionFrom(_, _, _)
\* Phase 3: the loop over the children; acc = [I, inFlow, outOfFlow, percentSized]
PartitionFrom(acc, chs, k) ==
  IF k > Len(chs) THEN acc
  ELSE IF ~attrs[chs[k]].isVisible \/ ~attrs[chs[k]].doLayout
  THEN PartitionFrom(acc, chs, k + 1)
  ELSE Then(getInstanceStyles(chs[k]), LAMBDA childStyles :
         Then(PartitionOne(acc, chs[k], childStyles), LAMBDA acc1 :
           PartitionFrom(acc1, chs, k + 1)))

partitionChildren(I, n) ==
  PartitionFrom([I |-> I, inFlow |-> <<>>, outOfFlow |-> <<>>, percentSized |-> <<>>],
                children(n), 1)

PartitionPhase(P, n, part) ==
  [I |-> part.I,
   log |-> Append(P.log, [e |-> "partition", n |-> n, inFlow |-> part.inFlow,
                          outOfFlow |-> part.outOfFlow])]

\* layoutProps.display && position !== "absolute" && position !== "anchor"
\* (display defaults to "vertical", so it is always truthy)
FlowApplies(layoutProps) == ~IsOutOfFlow(layoutProps.position)

FlowPhase(P, n, layoutProps, inFlow) ==
  [I |-> applyNormalFlowLayout(P.I, n, layoutProps, inFlow),
   log |-> Append(P.log, Ev("layout", n))]

FitPhase(P, n, layoutProps) ==
  [I |-> applyFitContentSizing(P.I, n, layoutProps), log |-> Append(P.log, Ev("fit", n))]

PercentPhase(P, c) ==
  [I |-> applyPercentageSizing(P.I, c), log |-> Append(P.log, Ev("percent", c))]

RECURSIVE PercentAll(_, _, _)
PercentAll(P, percentSized, k) ==
  IF k > Len(percentSized) THEN P
  ELSE Then(PercentPhase(P, percentSized[k]), LAMBDA Q :
         PercentAll(Q, percentSized, k + 1))

PositionPhase(P, c) ==
  [I |-> applyOutOfFlowLayout(P.I, c), log |-> Append(P.log, Ev("position", c))]

hasFlexChildren(I, chs) ==
  \E k \in DOMAIN chs :
    LET s == IF I[chs[k]].cs = <<>> THEN EmptyStyle ELSE I[chs[k]].cs[1]
        g == Get(s, "flexGrow")
        fb == Get(s, "flexBasis")
    IN \/ (Truthy(g) /\ ~ParseFloat(g).nan /\ ParseFloat(g).v > 0)
       \/ "flexShrink" \in DOMAIN s
       \/ (Truthy(fb) /\ fb.t # "auto")

\* Phase 6 of processInstance
FitContentPhase(P, n, layoutProps, part) ==
  IF ~layoutProps.fitContent THEN P
  ELSE
    Then(FitPhase(P, n, layoutProps), LAMBDA P1 :
      IF Len(part.percentSized) > 0
      THEN Then(PercentAll(P1, part.percentSized, 1), LAMBDA P2 :
             IF FlowApplies(layoutProps)
             THEN FlowPhase(P2, n, layoutProps, part.inFlow) ELSE P2)
      ELSE IF FlowApplies(layoutProps) /\ hasFlexChildren(P1.I, part.inFlow)
      THEN FlowPhase(P1, n, layoutProps, part.inFlow)
      ELSE P1)

RECURSIVE processInstance(_, _)
RECURSIVE ProcessInFlow(_, _, _)
RECURSIVE ProcessOutOfFlow(_, _, _)

\* Phase 4: for (const child of inFlowChildren) this.processInstance(child)
ProcessInFlow(P, inFlow, k) ==
  IF k > Len(inFlow) THEN P
  ELSE Then(processInstance(P, inFlow[k]), LAMBDA Q : ProcessInFlow(Q, inFlow, k + 1))

\* Phase 7: each out-of-flow child is processed, then positioned
ProcessOutOfFlow(P, outOfFlow, k) ==
  IF k > Len(outOfFlow) THEN P
  ELSE Then(processInstance(P, outOfFlow[k]), LAMBDA Q :
         Then(PositionPhase(Q, outOfFlow[k]), LAMBDA R :
           ProcessOutOfFlow(R, outOfFlow, k + 1)))

\* UILayout.processInstance(instance) with the order of a common slip: the
\* container is laid out before its in-flow children are processed
processInstance_LayoutFirst(P, n) ==
  Then(StylePhase(P, n), LAMBDA P1 :
    Then(LayoutPropsForced(P1.I, n), LAMBDA layoutProps :
      Then(partitionChildren(P1.I, n), LAMBDA part :
        Then(PartitionPhase(P1, n, part), LAMBDA P3 :
          Then(IF FlowApplies(layoutProps)
               THEN FlowPhase(P3, n, layoutProps, part.inFlow) ELSE P3, LAMBDA P4 :
            Then(ProcessInFlow(P4, part.inFlow, 1), LAMBDA P5 :
              Then(FitContentPhase(P5, n, layoutProps, part), LAMBDA P6 :
                Then(ProcessOutOfFlow(P6, part.outOfFlow, 1), LAMBDA P7 :
                  Logged(P7, Ev("end", n))))))))))

\* UILayout.processInstance(instance)
processInstance(P, n) ==
  Then(StylePhase(P, n), LAMBDA P1 :
    Then(LayoutPropsForced(P1.I, n), LAMBDA layoutProps :
      Then(partitionChildren(P1.I, n), LAMBDA part :
        Then(PartitionPhase(P1, n, part), LAMBDA P3 :
          Then(ProcessInFlow(P3, part.inFlow, 1), LAMBDA P4 :
            Then(IF FlowApplies(layoutProps)
                 THEN FlowPhase(P4, n, layoutProps, part.inFlow) ELSE P4, LAMBDA P5 :
              Then(FitContentPhase(P5, n, layoutProps, part), LAMBDA P6 :
                Then(ProcessOutOfFlow(P6, part.outOfFlow, 1), LAMBDA P7 :
                  Logged(P7, Ev("end", n))))))))))

\* The tree after one pass rooted at n
LayoutResult(I, n) == Then([I |-> I, log |-> <<>>], LAMBDA P : processInstance(P, n))

\* ------------------------------------------------------------------ step generator
\* processInstanceStepByStep as a stack of frames, one per active call of the
\* generator function (yield* pushes the child's frame).  A frame's pc names the
\* yield it is suspended at: "start" before the first resumption, then
\*   "1" applied styles, "2" layout properties, "3" separated children,
\*   "4" in-flow children first, "4a"/"4b" child i started/completed,
\*   "5a"/"5b" flow layout, "6a"/"6b" fit-content, "6.1a" percentage pass,
\*   "6.1b" child i re-sized, "6.2a"/"6.2b" re-layout, "7" out-of-flow children,
\*   "7a"/"7b" child i started/positioned, "8" layout complete.
\* G = [I, log, frames, done, out]; out is the value yielded.

NoLayoutProps == <<>>
NewFrame(n) ==
  [n |-> n, pc |-> "start", i |-> 0, lp |-> NoLayoutProps,
   inFlow |-> <<>>, outOfFlow |-> <<>>, percentSized |-> <<>>]
Top(G) == G.frames[Len(G.frames)]

\* Suspend at a yield: the top frame becomes f; instance says whether the step
\* record has an "instance" entry (the others have "parent" and "child").
Yield(G, f, instance) ==
  [G EXCEPT !.frames[Len(G.frames)] = f,
            !.out = [step |-> f.pc, i |-> f.i, node |-> f.n, instance |-> instance]]

GenAfter6(G) == Yield(G, [Top(G) EXCEPT !.pc = "7"], TRUE)
GenAfter5(G) ==
  IF Top(G).lp.fitContent THEN Yield(G, [Top(G) EXCEPT !.pc = "6a"], TRUE) ELSE GenAfter6(G)
\* The generator tests layoutProps.position as the style gives it, for a node
\* without a parent too
GenAfter4(G) ==
  IF FlowApplies(Top(G).lp) THEN Yield(G, [Top(G) EXCEPT !.pc = "5a"], TRUE)
  ELSE GenAfter5(G)

\* The generator runs phase result Q in, then suspends at the yield of frame f
Ran(G, Q, f, instance) == Yield([G EXCEPT !.I = Q.I, !.log = Q.log], f, instance)

\* The caller of a generator function that returned runs on to its next yield:
\* "completed child" in phase 4, applyOutOfFlowLayout and "positioned" in phase 7
GenResume(G, c) ==
  IF G.frames = <<>> THEN [G EXCEPT !.done = TRUE]
  ELSE IF Top(G).pc = "4a" THEN Yield(G, [Top(G) EXCEPT !.pc = "4b"], FALSE)
  ELSE Then(PositionPhase([I |-> G.I, log |-> G.log], c), LAMBDA Q :
         Ran(G, Q, [Top(G) EXCEPT !.pc = "7b"], FALSE))

\* The generator function returns: its frame is popped and the caller, which
\* delegated with yield*, resumes
GenReturn(G) ==
  Then([G EXCEPT !.frames = SubSeq(@, 1, Len(@) - 1),
                 !.log = Append(@, Ev("end", Top(G).n))], LAMBDA G1 :
    GenResume(G1, Top(G).n))

\* yield* processInstanceStepByStep(layoutInstance, child)
Delegate(G, child) == [G EXCEPT !.frames = Append(@, NewFrame(child))]

RECURSIVE GenNext(_)
\* One resumption of the frame f on top of the stack, P being the tree and log
GenStep(G, f, P) ==
  CASE f.pc = "start" ->
         Then(StylePhase(P, f.n), LAMBDA Q : Ran(G, Q, [f EXCEPT !.pc = "1"], TRUE))
    [] f.pc = "1" ->
         Then(getLayoutProperties(G.I, f.n), LAMBDA lp :
           Yield(G, [f EXCEPT !.pc = "2", !.lp = lp], TRUE))
    [] f.pc = "2" ->
         Then(partitionChildren(G.I, f.n), LAMBDA part :
           Then(PartitionPhase(P, f.n, part), LAMBDA Q :
             Ran(G, Q, [f EXCEPT !.pc = "3", !.inFlow = part.inFlow,
                                 !.outOfFlow = part.outOfFlow,
                                 !.percentSized = part.percentSized], TRUE)))
    [] f.pc = "3" -> Yield(G, [f EXCEPT !.pc = "4"], TRUE)
    [] f.pc = "4" ->
         IF Len(f.inFlow) > 0 THEN Yield(G, [f EXCEPT !.pc = "4a", !.i = 1], FALSE)
         ELSE GenAfter4(G)
    [] f.pc = "4a" -> Then(Delegate(G, f.inFlow[f.i]), LAMBDA G1 : GenNext(G1))
    [] f.pc = "4b" ->
         IF f.i < Len(f.inFlow) THEN Yield(G, [f EXCEPT !.pc = "4a", !.i = f.i + 1], FALSE)
         ELSE GenAfter4(G)
    [] f.pc = "5a" ->
         Then(FlowPhase(P, f.n, f.lp, f.inFlow), LAMBDA Q :
           Ran(G, Q, [f EXCEPT !.pc = "5b"], TRUE))
    [] f.pc = "5b" -> GenAfter5(G)
    [] f.pc = "6a" ->
         Then(FitPhase(P, f.n, f.lp), LAMBDA Q : Ran(G, Q, [f EXCEPT !.pc = "6b"], TRUE))
    [] f.pc = "6b" ->
         IF Len(f.percentSized) > 0 THEN Yield(G, [f EXCEPT !.pc = "6.1a", !.i = 0], TRUE)
         ELSE GenAfter6(G)
    [] f.pc \in {"6.1a", "6.1b"} ->
         IF f.i < Len(f.percentSized)
         THEN Then(PercentPhase(P, f.percentSized[f.i + 1]), LAMBDA Q :
                Ran(G, Q, [f EXCEPT !.pc = "6.1b", !.i = f.i + 1], FALSE))
         ELSE IF FlowApplies(f.lp) THEN Yield(G, [f EXCEPT !.pc = "6.2a"], TRUE)
         ELSE GenAfter6(G)
    [] f.pc = "6.2a" ->
         Then(FlowPhase(P, f.n, f.lp, f.inFlow), LAMBDA Q :
           Ran(G, Q, [f EXCEPT !.pc = "6.2b"], TRUE))
    [] f.pc = "6.2b" -> GenAfter6(G)
    [] f.pc = "7" ->
         IF Len(f.outOfFlow) > 0 THEN Yield(G, [f EXCEPT !.pc = "7a", !.i = 1], FALSE)
         ELSE Yield(G, [f EXCEPT !.pc = "8"], TRUE)
    [] f.pc = "7a" -> Then(Delegate(G, f.outOfFlow[f.i]), LAMBDA G1 : GenNext(G1))
    [] f.pc = "7b" ->
         IF f.i < Len(f.outOfFlow)
         THEN Yield(G, [f EXCEPT !.pc = "7a", !.i = f.i + 1], FALSE)
         ELSE Yield(G, [f EXCEPT !.pc = "8"], TRUE)
    [] OTHER -> GenReturn(G)     \* f.pc = "8"

\* generator.next(): run from the current yield to the next one, or to the end
GenNext(G) ==
  Then(Top(G), LAMBDA f : Then([I |-> G.I, log |-> G.log], LAMBDA P : GenStep(G, f, P)))

\* processInstanceStepByStep(layoutInstance, instance): a fresh generator
processInstanceStepByStep(n) == [frames |-> <<NewFrame(n)>>, done |-> FALSE]

\* ------------------------------------------------------------------ debug driver
\* D is the state a call of UILayoutDebug works on, with the value it returns.

NoGenerator == [frames |-> <<>>, done |-> FALSE]      \* debugGenerator = null
NoInfo == <<>>                                        \* null

Cur ==
  [inst |-> inst, debugMode |-> debugMode, pendingGenerators |-> pendingGenerators,
   gen |-> gen, debugInfo |-> debugInfo, lastDebugInfo |-> lastDebugInfo,
   highlight |-> highlight, log |-> log, ret |-> ret]

\* highlightInstance: the Highlight instance takes the size and position of the
\* instance whose tags are the step's instance id
Highlighted(I, n) == <<[x |-> I[n].x, y |-> I[n].y, width |-> I[n].width, height |-> I[n].height]>>

RECURSIVE nextStep(_)

\* The generator debugGenerator of driver D, as GenNext takes it
GenOf(D) ==
  [I |-> D.inst, log |-> D.log, frames |-> D.gen.frames, done |-> D.gen.done,
   out |-> NoInfo]

\* Driver D after a resumption of its generator that left it as G
Resumed(D, G) ==
  [D EXCEPT !.inst = G.I, !.log = G.log, !.gen = [frames |-> G.frames, done |-> G.done]]

\* A step was yielded: it becomes debugInfo and its instance is highlighted
Stepped(D, G) ==
  [D EXCEPT !.lastDebugInfo = D.debugInfo, !.debugInfo = <<G.out>>,
            !.highlight = IF G.out.instance THEN Highlighted(G.I, G.out.node) ELSE @,
            !.ret = "step"]

\* The stack of generators is empty: the driver disables itself
Finished(D) ==
  [D EXCEPT !.lastDebugInfo = D.debugInfo, !.debugInfo = NoInfo, !.debugMode = FALSE,
            !.ret = "null"]

\* the end of the step sequence with debugMode left set
Finished_StaysArmed(D) ==
  [D EXCEPT !.lastDebugInfo = D.debugInfo, !.debugInfo = NoInfo, !.ret = "null"]

\* the body of nextStep() that leaves debugMode set when the step sequence ends
StepActive_StaysArmed(D) ==
  Then(GenOf(D), LAMBDA G0 :
    Then(GenNext(G0), LAMBDA G :
      Then(Resumed(D, G), LAMBDA D1 :
        IF G.done
        THEN Then([D1 EXCEPT !.pendingGenerators = SubSeq(@, 1, Len(@) - 1)], LAMBDA D2 :
               IF Len(D2.pendingGenerators) > 0 THEN nextStep(D2)
               ELSE Finished_StaysArmed(D2))
        ELSE Stepped(D1, G))))

\* nextStep() past its guard: resume the generator on top of the stack
StepActive(D) ==
  Then(GenOf(D), LAMBDA G0 :
    Then(GenNext(G0), LAMBDA G :
      Then(Resumed(D, G), LAMBDA D1 :
        IF G.done
        THEN Then([D1 EXCEPT !.pendingGenerators = SubSeq(@, 1, Len(@) - 1)], LAMBDA D2 :
               IF Len(D2.pendingGenerators) > 0 THEN nextStep(D2)
               ELSE Finished(D2))
        ELSE Stepped(D1, G))))

\* nextStep() without the test for an inactive driver: the end-of-sequence
\* bookkeeping runs although there is nothing to step
nextStep_NoGuard(D) ==
  IF ~D.debugMode \/ Len(D.pendingGenerators) = 0
  THEN [D EXCEPT !.lastDebugInfo = D.debugInfo, !.debugInfo = NoInfo,
                 !.highlight = <<>>, !.ret = "null"]
  ELSE StepActive(D)

\* UILayoutDebug.nextStep()
nextStep(D) ==
  IF ~D.debugMode \/ Len(D.pendingGenerators) = 0 THEN [D EXCEPT !.ret = "null"]
  ELSE StepActive(D)

\* UILayoutDebug.enableDebugMode(rootInstance)
enableDebugMode(D, rootInstance) ==
  Then([D EXCEPT !.debugMode = TRUE,
                 !.gen = processInstanceStepByStep(rootInstance),
                 !.pendingGenerators = <<"debugGenerator">>,
                 !.log = <<>>], LAMBDA D1 :
    Then(nextStep(D1), LAMBDA D2 : [D2 EXCEPT !.ret = "undefined"]))

\* UILayoutDebug.disableDebugMode()
disableDebugMode(D) ==
  [D EXCEPT !.debugMode = FALSE, !.gen = NoGenerator, !.pendingGenerators = <<>>,
            !.debugInfo = NoInfo, !.ret = "undefined"]

\* UILayoutDebug.processInstance(instance) that always runs the pass
debugProcessInstance_AlwaysRuns(D, n) ==
  Then(LayoutResult(D.inst, n), LAMBDA P :
    [D EXCEPT !.inst = P.I, !.log = P.log, !.ret = "undefined"])

\* UILayoutDebug.processInstance(instance)
debugProcessInstance(D, n) ==
  IF ~D.debugMode
  THEN Then(LayoutResult(D.inst, n), LAMBDA P :
         [D EXCEPT !.inst = P.I, !.log = P.log, !.ret = "undefined"])
  ELSE [D EXCEPT !.ret = "undefined"]

\* ------------------------------------------------------------------ scenes
\* The trees the specification starts from: the inline style of each node is
\* drawn from a small library, in the vocabulary of the scenes of script.js.

Inline(cs) == ParsedStyle(cs, {})

RootStyles ==
  { Inline([display |-> Kw("vertical"), padding |-> Num(12), gap |-> Num(6),
            width |-> Num(240), height |-> Num(96)]),
    Inline([display |-> Kw("horizontal"), fitContent |-> Kw("true"), padding |-> Num(12),
            border |-> Num(2), gap |-> Num(12), alignItems |-> Kw("center")]),
    Inline([position |-> Kw("absolute"), width |-> Num(240), height |-> Num(240),
            justifyContent |-> Kw("center")]),
    Inline([position |-> Kw("anchor"), display |-> Kw("horizontal"),
            fitContent |-> Kw("true"), padding |-> Num(6)]),
    Inline([display |-> Kw("vertical"), fitContent |-> Kw("true"), padding |-> Num(12),
            border |-> Num(2), gap |-> Num(6)]) }

PanelAStyles ==
  { Inline([fitContent |-> Kw("true"), padding |-> Num(6), margin |-> Num(6)]),
    Inline([position |-> Kw("absolute"), right |-> Num(12), bottom |-> Num(12),
            width |-> Num(48), height |-> Num(48)]) }

PanelBStyles ==
  { Inline([width |-> Pct(50), height |-> Num(24)]),
    Inline([position |-> Kw("anchor"), anchorTarget |-> Kw("panelA"),
            anchorPoint |-> Kw("top"), selfAnchor |-> Kw("bottom"),
            anchorOffsetY |-> Num(-6), width |-> Num(48), height |-> Num(24)]) }

\* panelC carries the class "primary-button"; the scenes hide it or exclude it
\* from layout: <<inline style, isVisible, doLayout>>
PanelCVariants ==
  { <<Inline([flexGrow |-> Num(1)]), TRUE, TRUE>>,
    <<Inline([flexGrow |-> Num(1)]), FALSE, TRUE>>,
    <<Inline(EmptyStyle), TRUE, FALSE>> }

LeafStyles ==
  { Inline([width |-> Num(24), height |-> Num(24)]) }

Attr(style, classes, isVisible, doLayout) ==
  [isVisible |-> isVisible, doLayout |-> doLayout, classes |-> classes, style |-> style]

Scene(r, a, b, c, l) ==
  [n \in Nodes |->
     CASE n = 1 -> Attr(r, <<>>, TRUE, TRUE)
       [] n = 2 -> Attr(a, <<>>, TRUE, TRUE)
       [] n = 3 -> Attr(b, <<>>, TRUE, TRUE)
       [] n = 4 -> Attr(c[1], <<"primary-button">>, c[2], c[3])
       [] OTHER -> Attr(l, <<>>, TRUE, TRUE)]

\* Geometry the host gives the instances before any layout pass
InitialGeometry ==
  [n \in Nodes |->
     IF n = Root THEN [x |-> 24, y |-> 24, width |-> 240, height |-> 120, cs |-> <<>>]
     ELSE [x |-> 0, y |-> 0, width |-> 48, height |-> 24, cs |-> <<>>]]

NoCall == [op |-> "none", n |-> NoParent, armed |-> FALSE]

\* The driver as constructed (constructor of UILayoutDebug)
DriverInit ==
  /\ debugMode = FALSE
  /\ pendingGenerators = <<>>
  /\ gen = NoGenerator
  /\ debugInfo = NoInfo
  /\ lastDebugInfo = NoInfo
  /\ highlight = <<>>
  /\ ret = "undefined"
  /\ lastOp = NoCall
  /\ log = <<>>
  /\ passes = 0

Init ==
  /\ \E r \in RootStyles, a \in PanelAStyles, b \in PanelBStyles, c \in PanelCVariants,
        l \in LeafStyles :
       attrs = Scene(r, a, b, c, l)
  /\ inst = InitialGeometry
  /\ armedFrom = InitialGeometry
  /\ DriverInit
  /\ fin = <<>>
  /\ fout = <<>>

\* ------------------------------------------------------------------ actions

MaxPasses == 2

\* The nodes processInstance is called on from outside: the root panel (the tick
\* handler of main.js) and one panel below it
Callers == {Root, 2}

\* the variables a call of the driver writes
Returns(D) ==
  /\ inst' = D.inst
  /\ debugMode' = D.debugMode
  /\ pendingGenerators' = D.pendingGenerators
  /\ gen' = D.gen
  /\ debugInfo' = D.debugInfo
  /\ lastDebugInfo' = D.lastDebugInfo
  /\ highlight' = D.highlight
  /\ log' = D.log
  /\ ret' = D.ret

\* lastOp records the call and whether the driver was armed when it was made
Call(op, n) == [op |-> op, n |-> n, armed |-> debugMode]

\* startLayoutDebug of main.js: enableDebugMode on the root panel
EnableDebugMode ==
  /\ passes < MaxPasses
  /\ \E D \in {Cur} : \E R \in {enableDebugMode(D, Root)} : Returns(R)
  /\ armedFrom' = inst
  /\ passes' = passes + 1
  /\ lastOp' = Call("enableDebugMode", Root)
  /\ UNCHANGED <<attrs, fin, fout>>

\* nextLayoutStep of main.js
NextStep ==
  /\ \E D \in {Cur} : \E R \in {nextStep(D)} : Returns(R)
  /\ lastOp' = Call("nextStep", NoParent)
  /\ UNCHANGED <<attrs, armedFrom, passes, fin, fout>>

\* stopLayoutDebug of main.js
DisableDebugMode ==
  /\ \E D \in {Cur} : \E R \in {disableDebugMode(D)} : Returns(R)
  /\ lastOp' = Call("disableDebugMode", NoParent)
  /\ UNCHANGED <<attrs, armedFrom, passes, fin, fout>>

\* UILayoutDebug.processInstance(n), as the tick handler or any other caller makes it
ProcessInstance(n) ==
  /\ debugMode \/ passes < MaxPasses
  /\ \E D \in {Cur} : \E R \in {debugProcessInstance(D, n)} : Returns(R)
  /\ passes' = IF debugMode THEN passes ELSE passes + 1
  /\ lastOp' = Call("processInstance", n)
  /\ UNCHANGED <<attrs, armedFrom, fin, fout>>

Next ==
  \/ EnableDebugMode
  \/ NextStep
  \/ DisableDebugMode
  \/ \E n \in Callers : ProcessInstance(n)

Spec == Init /\ [][Next]_vars

\* ------------------------------------------------------------------ items
\* A second specification exercises the sizing functions and the two flow
\* layouters on their own: a container (the root) with the two items panelB and
\* panelC, whose styles range over the flex and min/max properties.

\* A style with the property p when val is defined
Opt(p, val) == IF val = Undef THEN EmptyStyle ELSE (p :> val)

Sizes == {Undef, Num(36), Num(60)}
\* flexBasis as a number, among them one below zero
Bases == {Undef, Num(-12), Num(60)}
Factors == {Undef, Num(1)}
ContainerSizes == {24, 120}

\* The style of an item: 48 by 48, with the same bounds on both axes
ItemStyle(grow, shrink, basis, mn, mx, margin) ==
  [width |-> Num(48), height |-> Num(48)]
    @@ Opt("flexGrow", grow) @@ Opt("flexShrink", shrink) @@ Opt("flexBasis", basis)
    @@ Opt("minWidth", mn) @@ Opt("minHeight", mn)
    @@ Opt("maxWidth", mx) @@ Opt("maxHeight", mx) @@ Opt("margin", margin)

ItemStyles ==
  {ItemStyle(grow, shrink, basis, mn, mx, margin) :
     grow \in Factors, shrink \in Factors, basis \in Bases, mn \in Sizes, mx \in Sizes,
     margin \in {Undef, Num(6)}}

ItemNodes == {Root, 3, 4}
Items == <<3, 4>>

\* The container: a square, bare or with a box model, a gap and its items
\* spread over the main axis
ContainerStyles ==
  {[width |-> Num(size), height |-> Num(size)] @@ box :
     size \in ContainerSizes,
     box \in {EmptyStyle,
              [padding |-> Num(6), border |-> Num(2), gap |-> Num(12),
               justifyContent |-> Kw("space-between"), alignItems |-> Kw("center"),
               columns |-> Num(1)]}}

ItemScene(container, b, c) ==
  [n \in Nodes |->
     CASE n = 1 -> Attr(Inline(container), <<>>, TRUE, TRUE)
       [] n = 3 -> Attr(Inline(b), <<>>, TRUE, TRUE)
       [] n = 4 -> Attr(Inline(c), <<>>, TRUE, TRUE)
       [] OTHER -> Attr(Inline(EmptyStyle), <<>>, FALSE, TRUE)]

\* The style of an item declared as "width: size; height: size; flex: g"
FlexShorthand(g, size) ==
  parseStyle(<<Decl("width", <<Number(size)>>), Decl("height", <<Number(size)>>),
               Decl("flex", <<Number(g)>>)>>).computedStyle

InitItems ==
  /\ \E container \in ContainerStyles,
        b \in ItemStyles \cup {FlexShorthand(1, 24), FlexShorthand(1, 48)},
        c \in {[width |-> Num(48), height |-> Num(48)],
               [width |-> Num(48), height |-> Num(48), flexGrow |-> Num(1)],
               ItemStyle(Num(1), Undef, Undef, Undef, Num(60), Undef),
               FlexShorthand(2, 48)} :
       attrs = ItemScene(container, b, c)
  /\ inst = InitialGeometry
  /\ armedFrom = InitialGeometry
  /\ DriverInit
  /\ fin = <<>>
  /\ fout = <<>>

\* What the item actions leave alone
ItemFrame ==
  UNCHANGED <<attrs, debugMode, pendingGenerators, gen, debugInfo, lastDebugInfo,
              highlight, ret, log, armedFrom, fin, fout>>

Styled == \A n \in ItemNodes : inst[n].cs # <<>>

\* applyStylesToInstance(n, getInstanceStyles(n)), phase 1 of a pass
ApplyStyles(n) ==
  /\ inst[n].cs = <<>>
  /\ \E styles \in {getInstanceStyles(n)} : inst' = applyStylesToInstance(inst, n, styles)
  /\ lastOp' = Call("applyStylesToInstance", n)
  /\ passes' = passes
  /\ ItemFrame

\* applyMinMaxConstraints(n, styles), as applyPercentageSizing ends
ApplyMinMax(n) ==
  /\ Styled
  /\ lastOp.op # "applyMinMaxConstraints"
  /\ inst' = applyMinMaxConstraints(inst, n, inst[n].cs[1])
  /\ lastOp' = Call("applyMinMaxConstraints", n)
  /\ passes' = passes
  /\ ItemFrame

\* layoutVertical(container, layoutProps, children)
LayoutVertical ==
  /\ Styled /\ passes < MaxPasses
  /\ \E layoutProps \in {getLayoutProperties(inst, Root)} :
       inst' = layoutVertical(inst, Root, layoutProps, Items)
  /\ lastOp' = Call("layoutVertical", Root)
  /\ passes' = passes + 1
  /\ ItemFrame

\* layoutHorizontal(container, layoutProps, children)
LayoutHorizontal ==
  /\ Styled /\ passes < MaxPasses
  /\ \E layoutProps \in {getLayoutProperties(inst, Root)} :
       inst' = layoutHorizontal(inst, Root, layoutProps, Items)
  /\ lastOp' = Call("layoutHorizontal", Root)
  /\ passes' = passes + 1
  /\ ItemFrame

\* layoutGrid(container, layoutProps, children)
LayoutGrid ==
  /\ Styled /\ passes < MaxPasses
  /\ \E layoutProps \in {getLayoutProperties(inst, Root)} :
       inst' = layoutGrid(inst, Root, layoutProps, Items)
  /\ lastOp' = Call("layoutGrid", Root)
  /\ passes' = passes + 1
  /\ ItemFrame

NextItems ==
  \/ \E n \in ItemNodes : ApplyStyles(n)
  \/ \E n \in {3, 4} : ApplyMinMax(n)
  \/ LayoutVertical
  \/ LayoutHorizontal
  \/ LayoutGrid

SpecItems == InitItems /\ [][NextItems]_vars

\* ------------------------------------------------------------------ cascade
\* A third specification exercises parseStyle and getInstanceStyles: panelC
\* carries a list of class names and an inline style text, both kept in fin.

StyleTexts ==
  { <<>>,
    <<Decl("width", <<Number(200)>>)>>,
    <<Decl("width", <<Number(200), Bang>>)>>,
    <<Decl("flex-grow", <<Number(1)>>)>>,
    <<Decl("flex", <<Number(1), Number(2), Number(100)>>)>>,
    <<Decl("width", <<Number(48), Bang>>), Decl("width", <<Number(72)>>)>>,
    <<Decl("width", <<Bang, Number(200)>>)>>,
    <<Decl("min-width", <<ZeroUnit("px")>>), Decl("height", <<Percentage(50)>>)>>,
    <<Decl("flex", <<Word("auto"), Bang>>)>>,
    <<Decl("width", <<Bang>>), Decl("height", <<>>)>> }

ClassNames == {"locked", "stretch", "primary-button", "ghost"}
ClassLists == {<<>>} \cup {<<a>> : a \in ClassNames} \cup {<<a, b>> : a, b \in ClassNames}
Styled4 == 4

InitCascade ==
  /\ \E classes \in ClassLists, text \in StyleTexts :
       /\ fin = [classes |-> classes, style |-> text]
       /\ attrs = [n \in Nodes |->
                     IF n = Styled4 THEN Attr(parseStyle(text), classes, TRUE, TRUE)
                     ELSE Attr(Inline(EmptyStyle), <<>>, TRUE, TRUE)]
  /\ inst = InitialGeometry
  /\ armedFrom = InitialGeometry
  /\ DriverInit
  /\ fout = <<>>

CascadeFrame ==
  UNCHANGED <<attrs, inst, debugMode, pendingGenerators, gen, debugInfo, lastDebugInfo,
              highlight, ret, log, armedFrom, passes, fin>>

\* parseStyle(instance.instVars.style)
ParseStyle ==
  /\ fout' = parseStyle(fin.style)
  /\ lastOp' = Call("parseStyle", Styled4)
  /\ CascadeFrame

\* getInstanceStyles(instance)
GetInstanceStyles ==
  /\ fout' = getInstanceStyles(Styled4)
  /\ lastOp' = Call("getInstanceStyles", Styled4)
  /\ CascadeFrame

NextCascade == ParseStyle \/ GetInstanceStyles

SpecCascade == InitCascade /\ [][NextCascade]_vars

\* ------------------------------------------------------------------ positioners
\* A fourth specification exercises the out-of-flow positioners and the
\* percentage sizing of a child against its parent: panelB is positioned
\* absolutely or by an anchor inside the root, or sized in percent of it, and the
\* root itself, which has no parent, is handed to the positioners too.

PositionedRootStyles ==
  { [width |-> Num(500), height |-> Num(400), padding |-> Num(15), border |-> Num(2)],
    [position |-> Kw("anchor"), width |-> Num(240), height |-> Num(120),
     padding |-> Num(12)],
    [padding |-> Num(6), border |-> Num(2)],
    [display |-> Kw("horizontal")] }

AbsoluteStyles ==
  { [position |-> Kw("absolute"), right |-> Num(10), bottom |-> Num(10),
     width |-> Num(50), height |-> Num(50)],
    [position |-> Kw("absolute"), left |-> Num(12), top |-> Num(12), margin |-> Num(6),
     width |-> Num(48), height |-> Num(24)],
    [position |-> Kw("absolute"), width |-> Num(48), height |-> Num(24)] }

AnchorTargets == {Undef, Kw("parent"), Kw("panelA"), Kw("panelB"), Kw("nobody")}
AnchorStyles ==
  {[position |-> Kw("anchor"), width |-> Num(48), height |-> Num(24)]
     @@ Opt("anchorTarget", target) @@ Opt("anchorPoint", anchorPoint)
     @@ Opt("selfAnchor", selfAnchor)
     @@ Opt("anchorOffsetX", offset[1]) @@ Opt("anchorOffsetY", offset[2]) :
     target \in AnchorTargets,
     anchorPoint \in {Undef, Kw("top-left"), Kw("bottom-right")},
     selfAnchor \in {Undef, Kw("bottom-left")},
     offset \in {<<Undef, Undef>>, <<Num(12), Num(-6)>>}}

PercentStyles ==
  { [width |-> Pct(50), height |-> Pct(50)],
    [percentWidth |-> Num(50), height |-> Num(24)],
    [width |-> Num(48), percentHeight |-> Num(100)],
    [width |-> Num(48), height |-> Num(24), flexBasis |-> Pct(50)],
    [display |-> Kw("horizontal"), width |-> Num(48), height |-> Num(24),
     flexBasis |-> Pct(50)] }

Positioned == {Root, 3}

PositionScene(r, b) ==
  [n \in Nodes |->
     CASE n = 1 -> Attr(Inline(r), <<>>, TRUE, TRUE)
       [] n = 2 -> Attr(Inline([width |-> Num(48), height |-> Num(48)]), <<>>, TRUE, TRUE)
       [] n = 3 -> Attr(Inline(b), <<>>, TRUE, TRUE)
       [] n = 4 -> Attr(Inline(EmptyStyle), <<>>, FALSE, TRUE)
       [] OTHER -> Attr(Inline([width |-> Num(24), height |-> Num(24)]), <<>>, TRUE, TRUE)]

\* The root with its origin at (origin, origin), 240 by 120 or collapsed to
\* nothing; panelA away from the origin
PositionGeometry(origin, collapsed) ==
  [n \in Nodes |->
     CASE n = 1 -> [x |-> origin, y |-> origin,
                    width |-> IF collapsed THEN 0 ELSE 240,
                    height |-> IF collapsed THEN 0 ELSE 120, cs |-> <<>>]
       [] n = 2 -> [x |-> 60, y |-> 36, width |-> 48, height |-> 48, cs |-> <<>>]
       [] OTHER -> [x |-> 0, y |-> 0, width |-> 48, height |-> 24, cs |-> <<>>]]

InitPositioners ==
  /\ \E r \in PositionedRootStyles,
        b \in AbsoluteStyles \cup AnchorStyles \cup PercentStyles :
       attrs = PositionScene(r, b)
  /\ \E g \in {<<0, FALSE>>, <<24, FALSE>>, <<24, TRUE>>} :
       /\ inst = PositionGeometry(g[1], g[2])
       /\ armedFrom = PositionGeometry(g[1], g[2])
  /\ DriverInit
  /\ fin = <<>>
  /\ fout = <<>>

\* positionAbsolute(n, layoutProps), as applyOutOfFlowLayout calls it
PositionAbsolute(n) ==
  /\ passes < MaxPasses
  /\ \E I \in {EnsureStyles(inst, n)} : \E layoutProps \in {getLayoutProperties(I, n)} :
       inst' = positionAbsolute(I, n, layoutProps)
  /\ lastOp' = Call("positionAbsolute", n)
  /\ passes' = passes + 1
  /\ ItemFrame

\* positionAnchor(n, layoutProps), as applyOutOfFlowLayout calls it
PositionAnchor(n) ==
  /\ passes < MaxPasses
  /\ \E I \in {EnsureStyles(inst, n)} : \E layoutProps \in {getLayoutProperties(I, n)} :
       inst' = positionAnchor(I, n, layoutProps)
  /\ lastOp' = Call("positionAnchor", n)
  /\ passes' = passes + 1
  /\ ItemFrame

\* applyPercentageSizing(n), phase 2 of a pass
ApplyPercentageSizing(n) ==
  /\ passes < MaxPasses
  /\ inst' = applyPercentageSizing(inst, n)
  /\ lastOp' = Call("applyPercentageSizing", n)
  /\ passes' = passes + 1
  /\ ItemFrame

NextPositioners ==
  \/ \E n \in Positioned : ApplyStyles(n)
  \/ \E n \in Positioned : ApplyPercentageSizing(n)
  \/ \E n \in Positioned : PositionAbsolute(n)
  \/ \E n \in Positioned : PositionAnchor(n)
  \/ ProcessInstance(Root)

SpecPositioners == InitPositioners /\ [][NextPositioners]_vars

\* x, y, width and height of every node
Geometry(I) == [n \in Nodes |-> <<I[n].x, I[n].y, I[n].width, I[n].height>>]

\* ------------------------------------------------------------------ out-of-flow child
\* A fifth specification lays out two trees that differ only in the
\* out-of-flow child panelB of the root: a pass runs over the tree, panelB is
\* then replaced (another out-of-flow style, another size, or no panelB at all)
\* in a tree that is otherwise as it was before the pass, and a pass runs over
\* that tree.  fout keeps the geometry the first pass ended with.

FittingRootStyles ==
  {[display |-> Kw(display), alignItems |-> Kw(alignItems), padding |-> Num(12)]
     @@ Opt("fitContent", fitContent) :
     display \in {"vertical", "horizontal"}, alignItems \in {"start", "center", "end"},
     fitContent \in {Undef, Kw("true")}}

\* panelB out of flow: <<style, isVisible, width and height given by the host>>;
\* an invisible panelB stands for a tree without it
OutOfFlowVariants ==
  { <<[position |-> Kw("absolute"), left |-> Num(12), top |-> Num(12)], TRUE, 48>>,
    <<[position |-> Kw("absolute"), left |-> Num(12), top |-> Num(12)], TRUE, 96>>,
    <<[position |-> Kw("absolute"), right |-> Num(12), width |-> Pct(50),
       height |-> Num(24)], TRUE, 48>>,
    <<[position |-> Kw("anchor"), anchorTarget |-> Kw("panelA"), width |-> Num(48),
       percentHeight |-> Num(50)], TRUE, 48>>,
    <<[position |-> Kw("absolute")], FALSE, 48>> }

OutOfFlowScene(r, v) ==
  [n \in Nodes |->
     CASE n = 1 -> Attr(Inline(r), <<>>, TRUE, TRUE)
       [] n = 2 -> Attr(Inline([width |-> Num(48), height |-> Num(48)]), <<>>, TRUE, TRUE)
       [] n = 3 -> Attr(Inline(v[1]), <<>>, v[2], TRUE)
       [] n = 4 -> Attr(Inline([width |-> Num(96), height |-> Num(24)]), <<>>, TRUE, TRUE)
       [] OTHER -> Attr(Inline([width |-> Num(24), height |-> Num(24)]), <<>>, TRUE, TRUE)]

\* The geometry before any pass, panelB of the size the host gives it
OutOfFlowGeometry(size) ==
  [InitialGeometry EXCEPT ![3].width = size, ![3].height = size]

InitOutOfFlow ==
  /\ \E r \in FittingRootStyles, v \in OutOfFlowVariants :
       /\ attrs = OutOfFlowScene(r, v)
       /\ inst = OutOfFlowGeometry(v[3])
       /\ armedFrom = OutOfFlowGeometry(v[3])
  /\ DriverInit
  /\ fin = <<>>
  /\ fout = <<>>

\* processInstance(root) on a tree no pass has run over
PassOverTree ==
  /\ lastOp.op # "processInstance"
  /\ \E R \in {LayoutResult(inst, Root)} :
       /\ inst' = R.I
       /\ log' = R.log
       /\ fout' = IF fout = <<>> THEN <<Geometry(R.I)>> ELSE fout
  /\ lastOp' = Call("processInstance", Root)
  /\ passes' = passes + 1
  /\ UNCHANGED <<attrs, debugMode, pendingGenerators, gen, debugInfo, lastDebugInfo,
                 highlight, ret, armedFrom, fin>>

\* The same tree before its pass, with another panelB
ReplaceOutOfFlow(v) ==
  /\ lastOp.op = "processInstance"
  /\ passes < MaxPasses
  /\ attrs[3] # OutOfFlowScene(EmptyStyle, v)[3]
  /\ attrs' = [attrs EXCEPT ![3] = OutOfFlowScene(EmptyStyle, v)[3]]
  /\ inst' = OutOfFlowGeometry(v[3])
  /\ log' = <<>>
  /\ lastOp' = Call("replace", 3)
  /\ UNCHANGED <<debugMode, pendingGenerators, gen, debugInfo, lastDebugInfo,
                 highlight, ret, armedFrom, fin, fout, passes>>

NextOutOfFlow ==
  \/ PassOverTree
  \/ \E v \in OutOfFlowVariants : ReplaceOutOfFlow(v)

SpecOutOfFlow == InitOutOfFlow /\ [][NextOutOfFlow]_vars

\* The same behaviours, with the host calling nextLayoutStep again and again
\* while a call of it can still change something
FairSpec == Init /\ [][Next]_vars /\ WF_vars(NextStep)

\* ------------------------------------------------------------------ properties

\* The call that was made last
LastCall(op) == lastOp.op = op
\* The last call was nextStep on an armed driver and it ended the step sequence
Exhausted == LastCall("nextStep") /\ lastOp.armed /\ ret = "null"
\* The last call was processInstance on a disarmed driver: a normal pass ran
PassDone == LastCall("processInstance") /\ ~lastOp.armed

\* The positions in the log of the events e of node n
Idx(e, n) == {k \in DOMAIN log : log[k].e = e /\ log[k].n = n}
InSeq(x, seq) == \E k \in DOMAIN seq : seq[k] = x

\* C1: while the driver is armed, a call of UILayoutDebug.processInstance changes
\* no node's x, y, width, height or cached computed style.
C1_ArmedProcessInstanceIsNoOp ==
  [][(lastOp'.op = "processInstance" /\ debugMode) => inst' = inst]_vars

\* processInstance was called in the middle of a step sequence that has already
\* changed the tree
C1_Witness ==
  /\ LastCall("processInstance") /\ lastOp.armed /\ debugMode
  /\ Len(gen.frames) > 1
  /\ Geometry(inst) # Geometry(armedFrom)

\* C2: once armed, repeated nextStep calls reach the call that returns null; that
\* call leaves debugMode false and no pending generator, and a later
\* processInstance runs a complete layout pass again.
C2_StepsReachTerminal ==
  /\ debugMode ~> ~debugMode
  /\ [](LastCall("nextStep") /\ ret = "null" => ~debugMode /\ pendingGenerators = <<>>)
  /\ [](PassDone => log # <<>> /\ log[1].e = "begin" /\ log[1].n = lastOp.n
                      /\ log[Len(log)].e = "end" /\ log[Len(log)].n = lastOp.n)

\* a step sequence ran to its end and a normal pass over the root followed
C2_Witness ==
  /\ PassDone /\ lastOp.n = Root
  /\ gen.done /\ ~debugMode /\ pendingGenerators = <<>>
  /\ log # <<>>

\* C3: when the step sequence started by enableDebugMode(root) has run to its end,
\* every node has the x, y, width and height that one processInstance(root) gives
\* the tree the driver was armed on.
C3_StepsEqualOnePass ==
  Exhausted => Geometry(inst) = Geometry(LayoutResult(armedFrom, Root).I)

\* C4: nextStep on an inactive driver returns null and changes neither the
\* driver's state nor any node.
C4_InactiveNextStepIsNoOp ==
  [][(lastOp'.op = "nextStep" /\ (~debugMode \/ pendingGenerators = <<>>))
       => /\ ret' = "null"
          /\ UNCHANGED <<debugMode, pendingGenerators, gen, debugInfo, lastDebugInfo, inst>>]_vars

\* nextStep was called after disableDebugMode had stopped a step sequence
C4_Witness ==
  /\ LastCall("nextStep") /\ ~lastOp.armed /\ ret = "null"
  /\ gen = NoGenerator /\ lastDebugInfo # NoInfo

\* What the pass does for node N itself after its in-flow children: its flow
\* layout, its fit-content resize and the percentage re-resolution of its children
OwnWork(N) ==
  Idx("layout", N) \cup Idx("fit", N)
    \cup {k \in DOMAIN log : log[k].e = "percent" /\ getParent(log[k].n) = N}

\* C5: in a pass, processInstance completes for every in-flow child of N, in
\* child-list order, before N's flow layouter first runs; every out-of-flow child
\* is recursed into and then positioned only after N's flow layout, fit-content
\* resize and percentage re-resolution.
C5_PhaseOrder ==
  PassDone =>
    \A p \in DOMAIN log :
      log[p].e = "partition" =>
        LET N == log[p].n
            inFlow == log[p].inFlow
            outOfFlow == log[p].outOfFlow
        IN /\ \A j \in DOMAIN inFlow :
                \E b \in Idx("begin", inFlow[j]), e \in Idx("end", inFlow[j]) :
                  /\ p < b /\ b < e
                  /\ \A l \in Idx("layout", N) : e < l
                  /\ j > 1 => \E e0 \in Idx("end", inFlow[j - 1]) : e0 < b
           /\ \A j \in DOMAIN outOfFlow :
                \E b \in Idx("begin", outOfFlow[j]), e \in Idx("end", outOfFlow[j]),
                   q \in Idx("position", outOfFlow[j]) :
                  /\ b < e /\ e < q
                  /\ \A k \in OwnWork(N) : k < b
                  /\ \A i \in DOMAIN inFlow : \A e1 \in Idx("end", inFlow[i]) : e1 < b
                  /\ j > 1 => \E q0 \in Idx("position", outOfFlow[j - 1]) : q0 < b

\* a pass over the root with in-flow and out-of-flow children, a fit-content
\* resize and a percentage re-resolution
C5_Witness ==
  /\ PassDone /\ lastOp.n = Root
  /\ \E p \in Idx("partition", Root) :
       Len(log[p].inFlow) > 1 /\ Len(log[p].outOfFlow) > 0
  /\ Idx("layout", Root) # {} /\ Idx("fit", Root) # {}
  /\ \E k \in DOMAIN log : log[k].e = "percent" /\ getParent(log[k].n) = Root

\* The position the cascade gives node c
StylePosition(c) == KwOr(getInstanceStyles(c), "position", "relative")

\* C6: phase 3 puts every visible child whose doLayout is not false in exactly one
\* of inFlow / outOfFlow, outOfFlow iff its position is absolute or anchor, and
\* every other child in neither.
C6_Partition ==
  \A p \in DOMAIN log :
    log[p].e = "partition" =>
      \A c \in Nodes :
        LET taken == getParent(c) = log[p].n /\ attrs[c].isVisible /\ attrs[c].doLayout
            out == StylePosition(c) \in {"absolute", "anchor"}
        IN /\ InSeq(c, log[p].inFlow) <=> (taken /\ ~out)
           /\ InSeq(c, log[p].outOfFlow) <=> (taken /\ out)
           /\ Cardinality({k \in DOMAIN log[p].inFlow : log[p].inFlow[k] = c}) <= 1
           /\ Cardinality({k \in DOMAIN log[p].outOfFlow : log[p].outOfFlow[k] = c}) <= 1

\* the root's children were partitioned: one in flow, one anchored, one hidden
C6_Witness ==
  \E p \in Idx("partition", Root) :
    /\ log[p].inFlow # <<>>
    /\ \E k \in DOMAIN log[p].outOfFlow : StylePosition(log[p].outOfFlow[k]) = "anchor"
    /\ \E c \in {2, 3, 4} : ~attrs[c].isVisible

\* C7: a pass rooted at a parentless node whose style says position absolute or
\* anchor, run by processInstance or stepped through the debug driver, still runs
\* the flow layouter of the root over its in-flow children.
C7_RootLaidOutAsRelative ==
  ((PassDone /\ lastOp.n = Root) \/ Exhausted) /\ StylePosition(Root) \in {"absolute", "anchor"}
    => Idx("layout", Root) # {}

\* The content rectangle of node N on an axis, from its geometry and box model
ContentStart(I, N, axis) ==
  Pos(I, N, axis) + Lead(getBoxModel(I, N).padding, axis) + Lead(getBoxModel(I, N).border, axis)
ContentEnd(I, N, axis) ==
  Pos(I, N, axis) + Size(I, N, axis)
    - Trail(getBoxModel(I, N).padding, axis) - Trail(getBoxModel(I, N).border, axis)
LeadMargin(I, c, axis) == Lead(getBoxModel(I, c).margin, axis)

\* c lies in the content rectangle of N, up to its own leading margin
InContentRect(I, N, c) ==
  \A axis \in {"h", "v"} :
    /\ ContentStart(I, N, axis) + LeadMargin(I, c, axis) <= Pos(I, c, axis)
    /\ Pos(I, c, axis) <= ContentEnd(I, N, axis)

MainAxis(I, N) == IF getLayoutProperties(I, N).display = "horizontal" THEN "h" ELSE "v"
AlignOf(I, N, c) == KwOr(Sty(I, c), "alignSelf", getLayoutProperties(I, N).alignItems)

LaidOutAxis == IF LastCall("layoutVertical") THEN "v" ELSE "h"
LaidOut == LastCall("layoutVertical") \/ LastCall("layoutHorizontal")

\* C9: after layoutVertical or layoutHorizontal returns, the main-axis size of
\* every flex item is at least 0, whatever the container size, flexGrow,
\* flexShrink, flexBasis, min/max and margins.
C9_FlexSizeNonNegative ==
  LaidOut =>
    \A k \in DOMAIN Items :
      FlexItemOf(inst, Items[k], LaidOutAxis).isFlex => Size(inst, Items[k], LaidOutAxis) >= 0

\* min > max on an axis of node n holds the size of n at min or above
MinWins(n, axis) ==
  LET mn == Get(inst[n].cs[1], MinProp(axis))
      mx == Get(inst[n].cs[1], MaxProp(axis))
  IN IsNum(mn) /\ IsNum(mx) /\ mn.v > mx.v => Size(inst, n, axis) >= mn.v

\* C10: with min > max on an axis, min wins: after the clamp of
\* applyStylesToInstance, after applyMinMaxConstraints and after the clamp of the
\* flex-grow loop the size on that axis is at least min.
C10_MinWinsOverMax ==
  /\ LastCall("applyStylesToInstance") \/ LastCall("applyMinMaxConstraints")
       => \A axis \in {"h", "v"} : MinWins(lastOp.n, axis)
  /\ LaidOut =>
       \A k \in DOMAIN Items :
         FlexItemOf(inst, Items[k], LaidOutAxis).flexGrow > 0
           => MinWins(Items[k], LaidOutAxis)

\* The sources of panelC's style in cascade order: the texts of its registered
\* classes in list order, then its inline text
RECURSIVE ClassTextsOf(_, _)
ClassTextsOf(classes, k) ==
  IF k > Len(classes) THEN <<>>
  ELSE (IF classes[k] \in DOMAIN ClassText THEN <<ClassText[classes[k]]>> ELSE <<>>)
         \o ClassTextsOf(classes, k + 1)
SourceTexts == ClassTextsOf(fin.classes, 1) \o <<fin.style>>

\* What the line alone declares, and whether it declares it with !important
Declares(line) == parseStyle(<<line>>).computedStyle
EndsWithImportant(line) == Len(line.value) > 0 /\ line.value[Len(line.value)] = Bang

\* The places <<source, line>> that declare P, and the last of a set of places
Places(P) ==
  {pl \in (DOMAIN SourceTexts) \X (1 .. 3) :
     pl[2] \in DOMAIN SourceTexts[pl[1]] /\ P \in DOMAIN Declares(SourceTexts[pl[1]][pl[2]])}
LastPlace(S) ==
  CHOOSE x \in S : \A y \in S : y[1] < x[1] \/ (y[1] = x[1] /\ y[2] <= x[2])
Expected(P) ==
  LET imp == {pl \in Places(P) : EndsWithImportant(SourceTexts[pl[1]][pl[2]])}
      pl == LastPlace(IF imp # {} THEN imp ELSE Places(P))
  IN Declares(SourceTexts[pl[1]][pl[2]])[P]
CascadeProps == {"width", "height", "minWidth", "flexGrow", "flexShrink", "flexBasis"}

\* C11: every property of the style getInstanceStyles returns has the value of
\* the last declaration made with !important in the sources (classes in list
\* order, then inline), if there is one, and the value of the last declaration
\* otherwise; the properties a flex shorthand produces included.
C11_CascadeOrder ==
  LastCall("getInstanceStyles") =>
    \A P \in CascadeProps :
      Places(P) # {} => P \in DOMAIN fout /\ fout[P] = Expected(P)

\* a stored value that still holds the word !important
HoldsImportant(val) == val.t = "text" /\ \E i \in DOMAIN val.v : val.v[i] = Bang

\* C19: parseStyle flags a key important exactly when a declaration of it ends
\* with !important, it stores the value of such a declaration stripped and
\* coerced, and no stored value contains !important.
C19_ImportantIffSuffix ==
  LastCall("parseStyle") =>
    /\ \A k \in DOMAIN fin.style :
         LET line == fin.style[k]
             key == kebabToCamel(line.property)
             last == \A j \in DOMAIN fin.style : j > k => fin.style[j].property # line.property
         IN Len(line.value) > 0 =>
              /\ EndsWithImportant(line) => key \in fout.importantProperties
              /\ key \in fout.importantProperties =>
                   \E j \in DOMAIN fin.style :
                     fin.style[j].property = line.property /\ EndsWithImportant(fin.style[j])
              /\ EndsWithImportant(line) /\ last /\ key # "flex" =>
                   fout.computedStyle[key]
                     = convertValue(SubSeq(line.value, 1, Len(line.value) - 1))
    /\ \A P \in DOMAIN fout.computedStyle : ~HoldsImportant(fout.computedStyle[P])

\* C12: a second processInstance(root), made right after a first one on the
\* same tree and styles, leaves the x, y, width and height of every node as the
\* first left them.
C12_SecondPassChangesNothing ==
  [][(PassDone /\ lastOp.n = Root /\ ~debugMode
        /\ lastOp'.op = "processInstance" /\ lastOp'.n = Root)
       => Geometry(inst') = Geometry(inst)]_vars

\* N hugs its layout children as a vertical fit-content container does: its
\* height is padding and border plus their outer heights and the gaps between
\* them, its width padding and border plus their largest outer width
HugsVertically(I, N) ==
  LET chs == getLayoutChildren(I, N)
      bm == getBoxModel(I, N)
      m == ChildExtents(I, chs)
      gap == getLayoutProperties(I, N).gap
  IN /\ I[N].height = bm.padding.top + bm.padding.bottom + bm.border.top + bm.border.bottom
                        + m.sumH + gap * Max(0, Len(chs) - 1)
     /\ I[N].width = bm.padding.left + bm.padding.right + bm.border.left + bm.border.right
                       + m.maxW

\* The nodes the last pass fitted to their content as vertical containers
FittedVertically ==
  {N \in Nodes : /\ Idx("fit", N) # {}
                 /\ getLayoutProperties(inst, N).display = "vertical"
                 /\ getLayoutProperties(inst, N).fitContent}

PercentSizedChildren(I, N) ==
  {k \in DOMAIN getLayoutChildren(I, N) : hasPercentageSizing(Sty(I, getLayoutChildren(I, N)[k]))}

FlexItems(I, axis) == {k \in DOMAIN Items : FlexItemOf(I, Items[k], axis).isFlex}
RECURSIVE SumItems(_, _)
SumItems(f(_), S) ==
  IF S = {} THEN 0 ELSE LET k == CHOOSE k \in S : TRUE IN f(k) + SumItems(f, S \ {k})

\* The space the flex items are to fill: the content size of the container less
\* the outer sizes of the fixed items, the gaps and the margins of the flex items
FlexSpace(I, axis) ==
  ContentSize(I, Root, axis)
    - SumItems(LAMBDA k : OuterSize(I, Items[k], axis), DOMAIN Items \ FlexItems(I, axis))
    - TotalGaps(Items, getLayoutProperties(I, Root).gap)
    - SumItems(LAMBDA k : FlexItemOf(I, Items[k], axis).margins, FlexItems(I, axis))
FlexSizes(I, axis) == SumItems(LAMBDA k : Size(I, Items[k], axis), FlexItems(I, axis))
FlexBases(I, axis) == SumItems(LAMBDA k : FlexItemOf(I, Items[k], axis).base, FlexItems(I, axis))

\* no min or max of a flex item holds its size
NoneBound(I, axis) ==
  \A k \in FlexItems(I, axis) :
    LET mn == Get(Sty(I, Items[k]), MinProp(axis))
        mx == Get(Sty(I, Items[k]), MaxProp(axis))
    IN /\ IsNum(mn) => Size(I, Items[k], axis) > mn.v
       /\ IsNum(mx) => Size(I, Items[k], axis) < mx.v

GrowsOn(axis) ==
  /\ lastOp'.op = (IF axis = "v" THEN "layoutVertical" ELSE "layoutHorizontal")
  /\ \A k \in FlexItems(inst, axis) : FlexItemOf(inst, Items[k], axis).base >= 0
  /\ FlexBases(inst, axis) < FlexSpace(inst, axis)
  /\ \E k \in FlexItems(inst, axis) : FlexItemOf(inst, Items[k], axis).flexGrow > 0

\* The flex items fill the space left for them.  Sizes are whole units here and
\* each item's share of the free space is rounded down to one, so the sum may
\* fall short of the space by less than one unit per flex item.
FillsSpace(I, axis) ==
  LET short == FlexSpace(I, axis) - FlexSizes(I, axis)
  IN short >= 0 /\ short < Cardinality(FlexItems(I, axis))

SpreadFixedItems ==
  /\ LaidOut
  /\ getLayoutProperties(inst, Root).justifyContent = "space-between"
  /\ FlexItems(inst, LaidOutAxis) = {}

\* The outer (margin) edges of the first and the last item meet the edges of the
\* content rectangle of the container on the main axis
MeetsContentEdges ==
  LET first == Items[1]
      last == Items[Len(Items)]
  IN /\ Pos(inst, first, LaidOutAxis) - LeadMargin(inst, first, LaidOutAxis)
          = ContentStart(inst, Root, LaidOutAxis)
     /\ Pos(inst, last, LaidOutAxis) + Size(inst, last, LaidOutAxis)
          + Trail(getBoxModel(inst, last).margin, LaidOutAxis)
          = ContentEnd(inst, Root, LaidOutAxis)

\* C15 as stated: with justifyContent space-between and two or more fixed
\* items, the first item starts at the near edge of the content rectangle and
\* the last one ends at its far edge.
C15_SpaceBetweenMeetsEdges == SpreadFixedItems => MeetsContentEdges

\* the items and the gaps between them fit the content size of the container
ItemsFit ==
  SumItems(LAMBDA k : OuterSize(inst, Items[k], LaidOutAxis), DOMAIN Items)
    + TotalGaps(Items, getLayoutProperties(inst, Root).gap)
    <= ContentSize(inst, Root, LaidOutAxis)

\* C15: with justifyContent space-between and two or more fixed items that fit
\* the container, the first item starts at the near edge of the content
\* rectangle and the last one ends at its far edge.
C15_FittingItemsMeetEdges == SpreadFixedItems /\ ItemsFit => MeetsContentEdges

\* two fixed items were spread with more than the gap between them
C15_Witness ==
  /\ SpreadFixedItems /\ ItemsFit
  /\ Pos(inst, Items[2], LaidOutAxis) - LeadMargin(inst, Items[2], LaidOutAxis)
       - (Pos(inst, Items[1], LaidOutAxis) + Size(inst, Items[1], LaidOutAxis)
            + Trail(getBoxModel(inst, Items[1]).margin, LaidOutAxis))
       > getLayoutProperties(inst, Root).gap

\* The node positionAnchor was last called on, its layout properties and target
Anchored == lastOp.n
AnchoredProps == getLayoutProperties(inst, Anchored)
AnchoredTarget == AnchorTarget(Anchored, AnchoredProps)

\* The selfAnchor point of the instance lies on the anchorPoint of the target,
\* moved by the anchor offsets
OnAnchor ==
  LET self == getAnchorPoint(inst, Anchored, AnchoredProps.selfAnchor)
      point == getAnchorPoint(inst, AnchoredTarget, AnchoredProps.anchorPoint)
  IN /\ self.x = point.x + AnchoredProps.anchorOffsetX
     /\ self.y = point.y + AnchoredProps.anchorOffsetY

\* C16 as stated: after positionAnchor returns with a resolved target, whichever
\* node that is, the selfAnchor point of the instance is on the anchorPoint of
\* the target as it is then, moved by the anchor offsets.
C16_AnchorPointsMeet ==
  LastCall("positionAnchor") /\ AnchoredTarget # NoParent => OnAnchor

RECURSIVE Within(_, _)
\* m is n or a descendant of n
Within(m, n) == m # NoParent /\ (m = n \/ Within(getParent(m), n))

\* C16: after positionAnchor returns with a resolved target that is neither the
\* instance nor one of its descendants, the selfAnchor point of the instance is
\* on the anchorPoint of the target, moved by the anchor offsets.
C16_AnchorPointsMeetOnOtherNode ==
  LastCall("positionAnchor") /\ AnchoredTarget # NoParent /\ ~Within(AnchoredTarget, Anchored)
    => OnAnchor

\* positionAnchor has moved panelB onto a corner of panelA, with offsets
C16_Witness ==
  /\ LastCall("positionAnchor") /\ Anchored = 3 /\ AnchoredTarget = 2
  /\ AnchoredProps.anchorPoint = "bottom-right" /\ AnchoredProps.anchorOffsetX = 12
  /\ inst[3].y # 0

\* Scenario 5: the 500 x 400 parent with padding 15 and border 2 at (0, 0), and
\* panelB absolute with right 10, bottom 10, 50 x 50
Scenario5 ==
  /\ attrs[Root].style =
       Inline([width |-> Num(500), height |-> Num(400), padding |-> Num(15),
               border |-> Num(2)])
  /\ attrs[3].style =
       Inline([position |-> Kw("absolute"), right |-> Num(10), bottom |-> Num(10),
               width |-> Num(50), height |-> Num(50)])
  /\ inst[Root].x = 0 /\ inst[Root].y = 0

\* C17: after a pass over scenario 5 the child is at x = 438 and y = 338.
C17_Scenario5ChildPosition ==
  PassDone /\ lastOp.n = Root /\ Scenario5 => inst[3].x = 438 /\ inst[3].y = 338

\* The collaborator the positioner called in this step needs is missing
MissingCollaborator ==
  \/ lastOp'.op = "positionAbsolute" /\ getParent(lastOp'.n) = NoParent
  \/ /\ lastOp'.op = "positionAnchor"
     /\ AnchorTarget(lastOp'.n, getLayoutProperties(inst, lastOp'.n)) = NoParent

\* C18: positionAbsolute on an instance with no parent, and positionAnchor when
\* no target resolves, leave x, y, width and height of the instance as they were.
C18_MissingCollaboratorNoOp ==
  [][MissingCollaborator => Geometry(inst')[lastOp'.n] = Geometry(inst)[lastOp'.n]]_vars

\* positionAnchor has returned on panelB, which has been sized and moved before
\* and names a tag no instance carries
C18_Witness ==
  /\ LastCall("positionAnchor") /\ Anchored = 3
  /\ AnchoredProps.anchorTarget = Kw("nobody") /\ AnchoredTarget = NoParent
  /\ AnchoredProps.anchorOffsetX = 12
  /\ passes = 2

\* The style n is sized from in this step: the one applyStylesToInstance is
\* handed, or the cached one applyPercentageSizing reads
SizedFrom(n) ==
  IF lastOp'.op = "applyStylesToInstance" THEN getInstanceStyles(n) ELSE inst[n].cs[1]

\* This step sizes a child on the axis in percent of a parent of size 0 there
PercentOfNothing(axis) ==
  LET n == lastOp'.n
  IN /\ lastOp'.op \in {"applyStylesToInstance", "applyPercentageSizing"}
     /\ getParent(n) # NoParent
     /\ lastOp'.op = "applyPercentageSizing" => inst[n].cs # <<>>
     /\ Size(inst, getParent(n), axis) = 0
     /\ IF axis = "h" THEN WantsPercent(SizedFrom(n), "percentWidth", "width")
        ELSE WantsPercent(SizedFrom(n), "percentHeight", "height")

\* C20: a percentage width or height on a child whose parent has size 0 on that
\* axis leaves the child with size 0 on that axis after applyStylesToInstance or
\* applyPercentageSizing, whatever the padding and border of the parent.
C20_PercentOfZeroIsZero ==
  [][\A axis \in {"h", "v"} :
       PercentOfNothing(axis) => Size(inst', lastOp'.n, axis) = 0]_vars

\* The layouter this step calls works on the axis
Lays(axis) == lastOp'.op = (IF axis = "v" THEN "layoutVertical" ELSE "layoutHorizontal")

\* availableSpace of a layouter called on the items as they are in I
AvailableOf(I, axis) ==
  LET items == ClassifyChildren(I, Items, axis)
  IN AvailableSpace(ContentSize(I, Root, axis), TotalFixed(I, Items, items, axis),
                    TotalGaps(Items, getLayoutProperties(I, Root).gap),
                    InitialFlexSize(items), axis)

\* The computed style of item k declares no flex property at all
NoFlexDeclared(I, k) ==
  {"flexGrow", "flexShrink", "flexBasis"} \cap DOMAIN Sty(I, Items[k]) = {}

\* C21: a child that declares no flex property is classified as a flex item
\* (flexShrink defaulting to 1), and is shrunk when the children overflow.
C21_UndeclaredShrinkDefaultsToOne ==
  [][\A axis \in {"h", "v"} : \A k \in DOMAIN Items :
       Lays(axis) /\ NoFlexDeclared(inst, k)
         => /\ FlexItemOf(inst, Items[k], axis).isFlex
            /\ AvailableOf(inst, axis) < 0 /\ Size(inst, Items[k], axis) > 0
                 => Size(inst', Items[k], axis) < Size(inst, Items[k], axis)]_vars

\* The size the shrink step is to give an item, an undeclared flexShrink of a
\* flex item counting as dflt in the sum of the shrink factors
ShrunkTo(item, items, availableSpace, dflt) ==
  LET factor(k) == (IF items[k].shrinkNaN THEN dflt ELSE items[k].flexShrink) * items[k].base
      total == SumItems(factor, FlexIdx(items))
      target == Max(0, item.base - Div(Abs(availableSpace) * item.flexShrink * item.base, total))
  IN IF item.min.t # "undef" /\ target < item.min.v THEN item.min.v ELSE target

\* C22: whenever available < 0 and some flex item has flexShrink > 0, every flex
\* item with flexShrink > 0 is shrunk in proportion to shrink * baseSize, down
\* to 0 at most and not below its min, whatever its siblings declare (checked
\* for flex items of a positive base size).
C22_ShrinksWhateverSiblingsDeclare ==
  [][\A axis \in {"h", "v"} :
       LET items == ClassifyChildren(inst, Items, axis)
       IN Lays(axis) /\ AvailableOf(inst, axis) < 0
            /\ (\A k \in FlexIdx(items) : items[k].base > 0)
            => \A k \in FlexIdx(items) :
                 ~items[k].shrinkNaN /\ items[k].flexShrink > 0
                   => \E dflt \in {0, 1} :
                        Size(inst', Items[k], axis)
                          = ShrunkTo(items[k], items, AvailableOf(inst, axis), dflt)]_vars

\* panelB is declared "flex: 1" and panelC "flex: 2", neither with a min or max
OneToTwo ==
  /\ \E size \in {24, 48} : attrs[3].style = Inline(FlexShorthand(1, size))
  /\ attrs[4].style = Inline(FlexShorthand(2, 48))

\* The content space of the container less the gaps
FreeContent(I, axis) ==
  ContentSize(I, Root, axis) - TotalGaps(Items, getLayoutProperties(I, Root).gap)

\* C23: siblings declared "flex: 1" and "flex: 2" have base size 0, so in a
\* container with free space they end with main-axis sizes in ratio 1:2 that
\* add up to the free content space, whatever their sizes were before (checked
\* where the free space splits 1:2 in whole units).
C23_ShorthandSharesByGrowAlone ==
  [][\A axis \in {"h", "v"} :
       Lays(axis) /\ OneToTwo /\ FreeContent(inst, axis) > 0
         /\ FreeContent(inst, axis) % 3 = 0
         => /\ 3 * Size(inst', 3, axis) = FreeContent(inst, axis)
            /\ 3 * Size(inst', 4, axis) = 2 * FreeContent(inst, axis)]_vars

\* This step is applyPercentageSizing on a child whose cached style declares a
\* percentage flexBasis (and no percentage width or height)
ResolvesBasis ==
  LET n == lastOp'.n
  IN /\ lastOp'.op = "applyPercentageSizing"
     /\ getParent(n) # NoParent
     /\ inst[n].cs # <<>>
     /\ IsPercentString(Get(inst[n].cs[1], "flexBasis"))
     /\ Get(inst[n].cs[1], "flexBasis").v > 0
     /\ ~WantsPercent(inst[n].cs[1], "percentWidth", "width")
     /\ ~WantsPercent(inst[n].cs[1], "percentHeight", "height")

\* The main axis of the display of n
MainAxisOf(I, n) == IF KwOr(Sty(I, n), "display", "vertical") = "horizontal" THEN "h" ELSE "v"

\* C24: a percentage flexBasis sets the child's size on the main axis of its
\* parent, to that percentage of the parent's content box, and leaves the other
\* axis alone, whatever the child's own display is.
C24_PercentBasisOnParentAxis ==
  [][ResolvesBasis
       => LET n == lastOp'.n
              axis == MainAxisOf(inst, getParent(n))
          IN /\ Size(inst', n, axis)
                  = Div(ContentSize(inst, getParent(n), axis)
                          * Get(inst[n].cs[1], "flexBasis").v, 100)
             /\ Size(inst', n, Cross(axis)) = Size(inst, n, Cross(axis))]_vars

\* The tree with x and y, width and height exchanged.  The styles of the items
\* scenes are the same on both axes (square sizes, one margin, padding and
\* border for the four sides, the same min and max), so they are their own
\* transposes.
Transpose(I) ==
  [n \in Nodes |-> [I[n] EXCEPT !.x = I[n].y, !.y = I[n].x,
                                !.width = I[n].height, !.height = I[n].width]]

\* C25: layoutHorizontal is the axis-swap of layoutVertical: either layouter
\* gives the transposed result of the other one run on the transposed input.
C25_HorizontalMirrorsVertical ==
  [][\E layoutProps \in {getLayoutProperties(inst, Root)} :
       /\ lastOp'.op = "layoutVertical"
            => Geometry(inst')
                 = Geometry(Transpose(layoutHorizontal(Transpose(inst), Root, layoutProps, Items)))
       /\ lastOp'.op = "layoutHorizontal"
            => Geometry(inst')
                 = Geometry(Transpose(layoutVertical(Transpose(inst), Root, layoutProps, Items)))]_vars

\* The iterations the grow loop of a layouter makes when called on the items as
\* they are in I (0 when the grow branch is not taken)
GrowIterations(I, axis) ==
  LET items == ClassifyChildren(I, Items, axis)
      availableSpace == AvailableOf(I, axis)
  IN IF availableSpace > 0 /\ TotalFlexGrow(items) > 0
     THEN GrowLoop(items, availableSpace, TotalFlexGrow(items), TRUE, 0).iterations
     ELSE 0

\* C26: the flex-grow loop of a layouter ends after at most (number of flex
\* items + 1) iterations.
C26_GrowLoopBounded ==
  [][\A axis \in {"h", "v"} :
       Lays(axis)
         => GrowIterations(inst, axis) <= Cardinality(FlexItems(inst, axis)) + 1]_vars

\* A layouter has returned after a second iteration of its grow loop: panelB was
\* stopped at its max in the first one and panelC took the space panelB left
C26_Witness ==
  /\ LaidOut
  /\ FlexItemOf(inst, 3, LaidOutAxis).flexGrow > 0
  /\ IsNum(FlexItemOf(inst, 3, LaidOutAxis).max)
  /\ Size(inst, 3, LaidOutAxis) = FlexItemOf(inst, 3, LaidOutAxis).max.v
  /\ FlexItemOf(inst, 4, LaidOutAxis).flexGrow > 0
  /\ Size(inst, 4, LaidOutAxis) > 48 + 12
  /\ FlexSizes(inst, LaidOutAxis) = FlexSpace(inst, LaidOutAxis)

\* The outer main-axis sizes of all the items, with the gaps between them
OuterTotal(I, axis) ==
  SumItems(LAMBDA k : OuterSize(I, Items[k], axis), DOMAIN Items)
    + TotalGaps(Items, getLayoutProperties(I, Root).gap)

\* Every max of a flex item is at least its base size
MaxAdmitsBase(I, axis) ==
  \A k \in FlexItems(I, axis) :
    LET item == FlexItemOf(I, Items[k], axis)
    IN IsNum(item.max) => item.max.v >= item.base

\* No min holds the size of a flex item
NoMinBinds(I, axis) ==
  \A k \in FlexItems(I, axis) :
    LET mn == Get(Sty(I, Items[k]), MinProp(axis))
    IN IsNum(mn) => Size(I, Items[k], axis) > mn.v

NonNegativeItems(I) ==
  /\ getLayoutProperties(I, Root).gap >= 0
  /\ \A k \in DOMAIN Items :
       LET margin == getBoxModel(I, Items[k]).margin
       IN /\ I[Items[k]].width >= 0 /\ I[Items[k]].height >= 0
          /\ margin.top >= 0 /\ margin.bottom >= 0 /\ margin.left >= 0 /\ margin.right >= 0

\* The cell of the grid laid over the items of I that the k-th item falls in
CellOf(I, k) ==
  LET g == GridOf(getLayoutProperties(I, Root), getBoxModel(I, Root), ContentWidth(I, Root),
                  MaxOver([j \in DOMAIN Items |-> getOuterWidth(I, Items[j])], 1),
                  MaxOver([j \in DOMAIN Items |-> getOuterHeight(I, Items[j])], 1))
      row == (k - 1) \div g.columns
      col == (k - 1) % g.columns
  IN [row |-> row, col |-> col,
      left |-> I[Root].x + g.baseX + col * (g.maxCellWidth + g.gap + g.extraColumnGap),
      top |-> I[Root].y + g.baseY + row * (g.maxCellHeight + g.gap),
      width |-> g.maxCellWidth, height |-> g.maxCellHeight]

\* Two cells share no point
Disjoint(a, b) ==
  \/ a.left + a.width <= b.left \/ b.left + b.width <= a.left
  \/ a.top + a.height <= b.top \/ b.top + b.height <= a.top

\* The outer box of the k-th item, as placed in J, lies within the cell
InCell(J, k, cell) ==
  LET margin == getBoxModel(J, Items[k]).margin
      c == J[Items[k]]
  IN /\ cell.left <= c.x - margin.left
     /\ c.x + c.width + margin.right <= cell.left + cell.width
     /\ cell.top <= c.y - margin.top
     /\ c.y + c.height + margin.bottom <= cell.top + cell.height

\* C30: after a layouter returns for items with non-negative sizes and margins
\* and a gap >= 0, the items do not overlap: in vertical or horizontal flow each
\* item starts at or after the end of the one before it, and in the grid the
\* items fall in distinct, disjoint cells, each outer box within its own cell.
C30_ItemsDoNotOverlap ==
  [][NonNegativeItems(inst)
       => /\ \A axis \in {"h", "v"} :
               Lays(axis)
                 => \A k \in 1 .. Len(Items) - 1 :
                      Pos(inst', Items[k + 1], axis)
                        >= Pos(inst', Items[k], axis) + Size(inst', Items[k], axis)
          /\ lastOp'.op = "layoutGrid"
               => /\ \A k \in DOMAIN Items : InCell(inst', k, CellOf(inst, k))
                  /\ \A j, k \in DOMAIN Items :
                       j # k => /\ <<CellOf(inst, j).row, CellOf(inst, j).col>>
                                     # <<CellOf(inst, k).row, CellOf(inst, k).col>>
                                /\ Disjoint(CellOf(inst, j), CellOf(inst, k))]_vars

\* layoutGrid has placed the two items in the two rows of a one-column grid
\* with a gap, centred in their cells
C30_Witness ==
  /\ LastCall("layoutGrid")
  /\ getLayoutProperties(inst, Root).columns = 1
  /\ getLayoutProperties(inst, Root).gap = 12
  /\ inst[3].width # inst[4].width
  /\ inst[4].y >= inst[3].y + inst[3].height + 12
  /\ inst[3].x # inst[4].x

\* The in-flow children of the root, as phase 3 of a pass sorts them
InFlowOfRoot(I) == partitionChildren(I, Root).inFlow

\* The tree after applyNormalFlowLayout is run once more on the root
LaidOutAgain(I) ==
  applyNormalFlowLayout(I, Root, LayoutPropsForced(I, Root), InFlowOfRoot(I))

\* C29: at the end of processInstance on the root, the geometry of its in-flow
\* children is a fixed point of its flow layouter: running
\* applyNormalFlowLayout on the root once more changes no child's x, y, width
\* or height.
C29_FlowLayoutFixedPoint ==
  PassDone /\ lastOp.n = Root
    => \A k \in DOMAIN InFlowOfRoot(inst) :
         Geometry(LaidOutAgain(inst))[InFlowOfRoot(inst)[k]]
           = Geometry(inst)[InFlowOfRoot(inst)[k]]

\* C27: out-of-flow children do not influence the in-flow layout: a pass over a
\* tree that differs from an earlier one only in the out-of-flow child of the
\* root ends with the same width and height of the root and the same x, y,
\* width and height of every in-flow child of the root as the earlier pass.
C27_OutOfFlowLeavesFlowAlone ==
  LastCall("processInstance") /\ fout # <<>>
    => /\ inst[Root].width = fout[1][Root][3]
       /\ inst[Root].height = fout[1][Root][4]
       /\ \A k \in DOMAIN InFlowOfRoot(inst) :
            Geometry(inst)[InFlowOfRoot(inst)[k]] = fout[1][InFlowOfRoot(inst)[k]]

====
